---------------------------- MODULE Spec2Model ----------------------------
(***************************************************************************)
(* The KVTree engine of pmemkv (src/src/pmemkv.cc): persistent leaves      *)
(* linked from root.head, a volatile B+-tree of inner nodes and leaf       *)
(* descriptors above them, Put / Get / Remove, the leaf split with its     *)
(* propagation into the inner nodes, and Recover on open.                  *)
(*                                                                         *)
(* Strings are sequences of bytes (1-based); C arrays are functions on     *)
(* 0..N-1, so slot and child indices are the source's.  A null pointer is  *)
(* 0; a null buffer is the empty sequence (a real buffer has >= 2 bytes).  *)
(***************************************************************************)
EXTENDS Integers, Sequences, FiniteSets, TLC

\* ------------------------------------------------------------------ sizes

\* Slots per persistent leaf (the program's value is larger; the model is scaled).
LEAF_KEYS == 2

\* Half of INNER_KEYS; INNER_KEYS is even in the program.
InnerHalf == 1

\* Cap on the number of persistent leaves linked from root.head.
MaxLeaves == 4

\* Cap on the number of calls per run.
MaxOps == 5

\* Cap on the number of injected transaction failures per run.
MaxFaults == 1

INNER_KEYS == 2 * InnerHalf

INNER_KEYS_MIDPOINT == INNER_KEYS \div 2

INNER_KEYS_UPPER == (INNER_KEYS \div 2) + 1

LEAF_KEYS_MIDPOINT == LEAF_KEYS \div 2

\* ---------------------------------------------------------------- strings

Min(S) == CHOOSE x \in S : \A y \in S : x <= y

\* c_str() read as a C string: the bytes before the first zero byte.
CStr(s) ==
    LET z == {i \in 1..Len(s) : s[i] = 0}
    IN  IF z = {} THEN s ELSE SubSeq(s, 1, Min(z) - 1)

\* The C string that starts at byte offset off (0-based) of buffer buf.
CStrAt(buf, off) == CStr(SubSeq(buf, off + 1, Len(buf)))

\* Lexicographic comparison of two byte sequences (bytes unsigned): -1, 0, 1.
LexCmp(a, b) ==
    LET n == IF Len(a) < Len(b) THEN Len(a) ELSE Len(b)
        d == {i \in 1..n : a[i] # b[i]}
    IN  IF d # {}
        THEN (IF a[Min(d)] < b[Min(d)] THEN -1 ELSE 1)
        ELSE IF Len(a) < Len(b) THEN -1
        ELSE IF Len(a) > Len(b) THEN 1 ELSE 0

\* strcmp(a.c_str(), b.c_str()): only the bytes before the first zero count.
StrCmp(a, b) == LexCmp(CStr(a), CStr(b))

\* std::string::compare: all bytes count.
Compare(a, b) == LexCmp(a, b)

\* ------------------------------------------------------------------- hash

PEARSON_LOOKUP_TABLE == <<
    251, 175, 119, 215, 81, 14, 79, 191, 103, 49, 181, 143, 186, 157, 0, 232, 
    31, 32, 55, 60, 152, 58, 17, 237, 174, 70, 160, 144, 220, 90, 57, 223, 59, 
    3, 18, 140, 111, 166, 203, 196, 134, 243, 124, 95, 222, 179, 197, 65, 180, 
    48, 36, 15, 107, 46, 233, 130, 165, 30, 123, 161, 209, 23, 97, 16, 40, 91, 
    219, 61, 100, 10, 210, 109, 250, 127, 22, 138, 29, 108, 244, 67, 207, 9, 
    178, 204, 74, 98, 126, 249, 167, 116, 34, 77, 193, 200, 121, 5, 20, 113, 
    71, 35, 128, 13, 182, 94, 25, 226, 227, 199, 75, 27, 41, 245, 230, 224, 43, 
    225, 177, 26, 155, 150, 212, 142, 218, 115, 241, 73, 88, 105, 39, 114, 62, 
    255, 192, 201, 145, 214, 168, 158, 221, 148, 154, 122, 12, 84, 82, 163, 44, 
    139, 228, 236, 205, 242, 217, 11, 187, 146, 159, 64, 86, 239, 195, 42, 106, 
    198, 118, 112, 184, 172, 87, 2, 173, 117, 176, 229, 247, 253, 137, 185, 99, 
    164, 102, 147, 45, 66, 231, 52, 141, 211, 194, 206, 246, 238, 56, 110, 78, 
    248, 63, 240, 189, 93, 92, 51, 53, 183, 19, 171, 72, 50, 33, 104, 101, 69, 
    8, 252, 83, 120, 76, 135, 85, 54, 202, 125, 188, 213, 96, 235, 136, 208, 
    162, 129, 190, 132, 156, 38, 47, 1, 7, 254, 24, 4, 216, 131, 89, 21, 28, 
    133, 37, 153, 149, 80, 170, 68, 6, 169, 234, 151
>>

RECURSIVE Xor(_, _)
\* Bitwise exclusive or of two bytes.
Xor(a, b) ==
    IF a = 0 THEN b
    ELSE IF b = 0 THEN a
    ELSE 2 * Xor(a \div 2, b \div 2) + ((a + b) % 2)

RECURSIVE PearsonLoop(_, _, _)
\* for (i = size; i > 0;) hash = TABLE[hash ^ data[--i]]
PearsonLoop(data, i, hash) ==
    IF i > 0
    THEN PearsonLoop(data, i - 1, PEARSON_LOOKUP_TABLE[Xor(hash, data[i]) + 1])
    ELSE hash

\* The hash of RFC 3074, which PearsonHash modifies: no remap.
HashKept(hash) == hash

\* The remap of 0 to 1 at the end of PearsonHash.
HashRemap(hash) == IF hash = 0 THEN 1 ELSE hash

\* KVTree::PearsonHash
PearsonHash(data) == HashRemap(PearsonLoop(data, Len(data), Len(data) % 256))


\* ------------------------------------------------------------------ inputs

\* Keys that are distinct as C strings.
PlainKeys == {<<1>>, <<2>>, <<3>>, <<4>>}

\* Keys that are all the empty C string: <<>> and <<0, 7>> have the same
\* Pearson hash, the others have hashes of their own.
ZeroKeys == {<< >>, <<0>>, <<0, 0>>, <<0, 7>>}

\* A run calls the operations with the keys of one family.
KeyFamilies == {PlainKeys, ZeroKeys}

Keys == UNION KeyFamilies

\* Values the operations are called with: one with an embedded zero byte.
Values == {<<5>>, <<6, 0, 8>>}

\* ------------------------------------------------------- persistent slots

\* KVSlot: hash ph, key size ks, value size vs, buffer kv (<<>> is nullptr).
EmptySlot == [ph |-> 0, ks |-> 0, vs |-> 0, kv |-> << >>]

\* A clear that frees the buffer and keeps the hash.
SlotClearKeepsHash(slot) == [ph |-> slot.ph, ks |-> 0, vs |-> 0, kv |-> << >>]

\* KVSlot::clear
SlotClear(slot) == [ph |-> 0, ks |-> 0, vs |-> 0, kv |-> << >>]

\* KVSlot::set: the buffer is [key][0][value][0].
SlotSet(slot, hash, key, value) ==
    [ph |-> hash, ks |-> Len(key), vs |-> Len(value),
     kv |-> key \o <<0>> \o value \o <<0>>]

\* The key bytes of a non-empty slot (the first ks bytes of the buffer).
SlotKeyBytes(slot) == SubSeq(slot.kv, 1, slot.ks)

\* The value bytes of a non-empty slot (vs bytes after the key's terminator).
SlotValBytes(slot) == SubSeq(slot.kv, slot.ks + 2, slot.ks + 1 + slot.vs)

\* KVSlot::key() read as a C string.
SlotKey(slot) == CStrAt(slot.kv, 0)

\* KVSlot::val() read as a C string.
SlotVal(slot) == CStrAt(slot.kv, slot.ks + 1)

SlotIdx == 0..(LEAF_KEYS - 1)

\* make_persistent<KVLeaf>(): all slots empty, next null.
NewLeaf == [slots |-> [i \in SlotIdx |-> EmptySlot], next |-> 0]

\* ---------------------------------------------------------- volatile nodes

\* new KVLeafNode(): a leaf descriptor (the inner-node fields stay unused).
NewLeafNode ==
    [is_leaf |-> TRUE, parent |-> 0, keycount |-> 0,
     keys |-> [i \in SlotIdx |-> << >>], children |-> << >>,
     hashes |-> [i \in SlotIdx |-> 0], leaf |-> 0]

\* new KVInnerNode(): keys[INNER_KEYS + 1], children[INNER_KEYS + 2].
NewInnerNode ==
    [is_leaf |-> FALSE, parent |-> 0, keycount |-> 0,
     keys |-> [i \in 0..INNER_KEYS |-> << >>],
     children |-> [i \in 0..(INNER_KEYS + 1) |-> 0],
     hashes |-> << >>, leaf |-> 0]

\* The engine's state as one value: the pool (head, leaves) and the volatile
\* members of KVTree (nodes is the heap of KVNode objects, by address).
EmptyState ==
    [head |-> 0, leaves |-> << >>, nodes |-> << >>, tree_top |-> 0,
     leaves_prealloc |-> << >>]

\* An aborted transaction restores the pool and nothing else.
Rollback(pre, cur) == [cur EXCEPT !.head = pre.head, !.leaves = pre.leaves]

\* ----------------------------------------------------------------- search

\* The child LeafSearch takes at an inner node: the first child whose key is
\* >= key by strcmp, else children[keycount].
ChildFor(inner, key) ==
    LET hit == {idx \in 0..(inner.keycount - 1) : StrCmp(key, inner.keys[idx]) <= 0}
    IN  IF hit # {} THEN inner.children[Min(hit)] ELSE inner.children[inner.keycount]

RECURSIVE Descend(_, _, _)
Descend(s, node, key) ==
    IF s.nodes[node].is_leaf THEN node
    ELSE Descend(s, ChildFor(s.nodes[node], key), key)

\* KVTree::LeafSearch: 0 when tree_top is null.
LeafSearch(s, key) == IF s.tree_top = 0 THEN 0 ELSE Descend(s, s.tree_top, key)

Max(S) == CHOOSE x \in S : \A y \in S : x >= y

\* The slot the descending scans of Get, Remove and LeafFillSlotForKey stop at:
\* the highest slot whose hash is hash and whose key is key by strcmp; -1 if none.
MatchSlot(leafnode, hash, key) ==
    LET m == {i \in SlotIdx : leafnode.hashes[i] = hash
                               /\ StrCmp(leafnode.keys[i], key) = 0}
    IN  IF m = {} THEN -1 ELSE Max(m)

\* What reading a string through a null buffer pointer can do.
UBOutcomes(init) ==
    {[status |-> "SEGV", value |-> init]}
        \cup {[status |-> "OK", value |-> init \o g] : g \in Values \cup {<< >>}}

\* KVTree::Get(key, string* value): the set of possible (status, *value) given
\* that *value holds init before the call.
Get(s, key, init) ==
    LET n == LeafSearch(s, key)
    IN  IF n = 0 THEN {[status |-> "NOT_FOUND", value |-> init]}
        ELSE LET slot == MatchSlot(s.nodes[n], PearsonHash(key), key)
             IN  IF slot < 0 THEN {[status |-> "NOT_FOUND", value |-> init]}
                 ELSE LET kv == s.leaves[s.nodes[n].leaf].slots[slot]
                      IN  IF kv.kv = << >> THEN UBOutcomes(init)
                          ELSE {[status |-> "OK", value |-> init \o SlotVal(kv)]}

\* ----------------------------------------------------------------- faults

\* Where the persistent transaction of an operation fails (and rolls back):
\* "begin" before its body runs, "alloc" in make_persistent<KVLeaf>, "move" in
\* the swap of slot `slot` during a split, "set" in KVSlot::set, "clear" in
\* KVSlot::clear.
NoFault == [kind |-> "none", slot |-> 0]

Faults ==
    {NoFault} \cup {[kind |-> k, slot |-> 0] : k \in {"begin", "alloc", "set", "clear"}}
              \cup {[kind |-> "move", slot |-> i] : i \in SlotIdx}

\* -------------------------------------------------------------------- put

\* new KVLeafNode() / new KVInnerNode(): the node gets the next address.
AllocNode(s, node) == [s EXCEPT !.nodes = Append(s.nodes, node)]

\* The volatile half of LeafFillSpecificSlot: the mirror is written only when
\* the slot's hash is 0.
FillMirror(s, n, hash, key, slot) ==
    IF s.nodes[n].hashes[slot] = 0
    THEN [s EXCEPT !.nodes[n].hashes[slot] = hash, !.nodes[n].keys[slot] = key]
    ELSE s

\* The persistent half of LeafFillSpecificSlot: leaf->slots[slot].set(...).
FillSlot(s, n, hash, key, value, slot) ==
    LET l == s.nodes[n].leaf
    IN  [s EXCEPT !.leaves[l].slots[slot] = SlotSet(s.leaves[l].slots[slot], hash, key, value)]

\* KVTree::LeafFillSpecificSlot
LeafFillSpecificSlot(s, n, hash, key, value, slot) ==
    FillSlot(FillMirror(s, n, hash, key, slot), n, hash, key, value, slot)

\* A TakeLeaf whose new leaf becomes the head without the former head as next.
TakeLeafDropsList(s, n, fault) ==
    IF s.leaves_prealloc # << >>
    THEN LET k == Len(s.leaves_prealloc)
         IN  [ok |-> TRUE,
              st |-> [s EXCEPT !.nodes[n].leaf = s.leaves_prealloc[k],
                               !.leaves_prealloc = SubSeq(s.leaves_prealloc, 1, k - 1)]]
    ELSE IF fault.kind = "alloc"
    THEN [ok |-> FALSE, st |-> s]
    ELSE LET new_leaf == Len(s.leaves) + 1
         IN  [ok |-> TRUE,
              st |-> [s EXCEPT !.leaves = Append(s.leaves, NewLeaf),
                               !.head = new_leaf,
                               !.nodes[n].leaf = new_leaf]]

\* A TakeLeaf that allocates a new leaf whatever the free list holds.
TakeLeafAlwaysNew(s, n, fault) ==
    IF fault.kind = "alloc"
    THEN [ok |-> FALSE, st |-> s]
    ELSE LET new_leaf == Len(s.leaves) + 1
         IN  [ok |-> TRUE,
              st |-> [s EXCEPT !.leaves = Append(s.leaves, [NewLeaf EXCEPT !.next = s.head]),
                               !.head = new_leaf,
                               !.nodes[n].leaf = new_leaf]]

\* The leaf a Put takes inside its transaction for descriptor n: the back of
\* leaves_prealloc, else a new leaf linked in front of root.head.
\* ok is FALSE when the allocation throws.
TakeLeaf(s, n, fault) ==
    IF s.leaves_prealloc # << >>
    THEN LET k == Len(s.leaves_prealloc)
         IN  [ok |-> TRUE,
              st |-> [s EXCEPT !.nodes[n].leaf = s.leaves_prealloc[k],
                               !.leaves_prealloc = SubSeq(s.leaves_prealloc, 1, k - 1)]]
    ELSE IF fault.kind = "alloc"
    THEN [ok |-> FALSE, st |-> s]
    ELSE LET new_leaf == Len(s.leaves) + 1
         IN  [ok |-> TRUE,
              st |-> [s EXCEPT !.leaves = Append(s.leaves, [NewLeaf EXCEPT !.next = s.head]),
                               !.head = new_leaf,
                               !.nodes[n].leaf = new_leaf]]

\* The branch of Put taken when LeafSearch returns null: the head leaf.
\* Result: the state, the status, and whether the fault was met.
PutHead(s, hash, key, value, fault) ==
    LET n  == Len(s.nodes) + 1
        s1 == AllocNode(s, NewLeafNode)
        tk == TakeLeaf(s1, n, fault)
        s3 == FillMirror(tk.st, n, hash, key, 0)
        s4 == FillSlot(s3, n, hash, key, value, 0)
    IN  IF fault.kind = "begin"
        THEN [st |-> s1, status |-> "FAILED", faulted |-> TRUE]
        ELSE IF ~tk.ok
        THEN [st |-> Rollback(s, tk.st), status |-> "FAILED", faulted |-> TRUE]
        ELSE IF fault.kind = "set"
        THEN [st |-> Rollback(s, s3), status |-> "FAILED", faulted |-> TRUE]
        ELSE [st |-> [s4 EXCEPT !.tree_top = n], status |-> "OK", faulted |-> FALSE]

\* The slot LeafFillSlotForKey picks: the matching slot, else the lowest empty
\* slot the descending scan saw, else -1.
SlotForKey(leafnode, hash, key) ==
    LET key_match_slot == MatchSlot(leafnode, hash, key)
        empty == {i \in SlotIdx : leafnode.hashes[i] = 0 /\ i > key_match_slot}
    IN  IF key_match_slot >= 0 THEN key_match_slot
        ELSE IF empty # {} THEN Min(empty) ELSE -1

\* KVTree::LeafFillSlotForKey (called when it returns true).
LeafFillSlotForKey(s, n, hash, key, value, fault) ==
    LET slot == SlotForKey(s.nodes[n], hash, key)
    IN  IF fault.kind = "begin"
        THEN [st |-> s, status |-> "FAILED", faulted |-> TRUE]
        ELSE IF fault.kind = "set"
        THEN [st |-> Rollback(s, FillMirror(s, n, hash, key, slot)),
              status |-> "FAILED", faulted |-> TRUE]
        ELSE [st |-> LeafFillSpecificSlot(s, n, hash, key, value, slot),
              status |-> "OK", faulted |-> FALSE]


\* ------------------------------------------------------------------ split

\* The LEAF_KEYS + 1 strings LeafSplitFull sorts: the descriptor's keys and the
\* new key at index LEAF_KEYS.
SplitCandidates(leafnode, key) ==
    [i \in 0..LEAF_KEYS |-> IF i = LEAF_KEYS THEN key ELSE leafnode.keys[i]]

\* The strings std::sort (ordering by strcmp) can leave at index
\* LEAF_KEYS_MIDPOINT: among strings equal by strcmp the order is unspecified.
SplitKeys(leafnode, key) ==
    LET c == SplitCandidates(leafnode, key)
        below(i) == Cardinality({j \in 0..LEAF_KEYS : StrCmp(c[j], c[i]) < 0})
        upto(i)  == Cardinality({j \in 0..LEAF_KEYS : StrCmp(c[j], c[i]) <= 0})
    IN  {c[i] : i \in {j \in 0..LEAF_KEYS :
                          below(j) <= LEAF_KEYS_MIDPOINT /\ upto(j) > LEAF_KEYS_MIDPOINT}}

\* The slots a split moves to the new leaf: key > split_key by strcmp.
SlotsAbove(leafnode, split_key) ==
    {i \in SlotIdx : StrCmp(leafnode.keys[i], split_key) > 0}

\* The body of the split's loop for the slots in M: swap the persistent slots
\* of the two leaves, copy hash and key to the new descriptor, clear the old.
MoveSlots(s, n, new_n, M) ==
    LET lo == s.nodes[n].leaf
        ln == s.nodes[new_n].leaf
        old == s.nodes[n]
        new == s.nodes[new_n]
    IN  [s EXCEPT
           !.leaves[ln].slots = [i \in SlotIdx |->
                IF i \in M THEN s.leaves[lo].slots[i] ELSE s.leaves[ln].slots[i]],
           !.leaves[lo].slots = [i \in SlotIdx |->
                IF i \in M THEN s.leaves[ln].slots[i] ELSE s.leaves[lo].slots[i]],
           !.nodes[new_n].hashes = [i \in SlotIdx |->
                IF i \in M THEN old.hashes[i] ELSE new.hashes[i]],
           !.nodes[new_n].keys = [i \in SlotIdx |->
                IF i \in M THEN old.keys[i] ELSE new.keys[i]],
           !.nodes[n].hashes = [i \in SlotIdx |->
                IF i \in M THEN 0 ELSE old.hashes[i]],
           !.nodes[n].keys = [i \in SlotIdx |->
                IF i \in M THEN << >> ELSE old.keys[i]]]

\* The slot LeafFillEmptySlot fills: the highest empty one; -1 if none.
EmptySlotOf(leafnode) ==
    LET e == {i \in SlotIdx : leafnode.hashes[i] = 0}
    IN  IF e = {} THEN -1 ELSE Max(e)

\* KVTree::LeafFillEmptySlot: nothing happens when the leaf has no empty slot.
LeafFillEmptySlot(s, n, hash, key, value) ==
    LET slot == EmptySlotOf(s.nodes[n])
    IN  IF slot < 0 THEN s ELSE LeafFillSpecificSlot(s, n, hash, key, value, slot)

\* delete new_leafnode: the node allocated last.
DeleteLastNode(s) == [s EXCEPT !.nodes = SubSeq(s.nodes, 1, Len(s.nodes) - 1)]

\* The first index at which InnerUpdateAfterSplit inserts split_key:
\* while (idx < keycount && keys[idx].compare(split_key) <= 0) idx++
InsertIdx(inner, split_key) ==
    Min({i \in 0..(inner.keycount - 1) : Compare(inner.keys[i], split_key) > 0}
            \cup {inner.keycount})

\* The insertion of split_key and new_node into inner node `inner`.
InnerInsert(inner, new_node, split_key) ==
    LET keycount == inner.keycount
        idx == InsertIdx(inner, split_key)
    IN  [inner EXCEPT
           !.keys = [i \in 0..INNER_KEYS |->
                IF i = idx THEN split_key
                ELSE IF i > idx /\ i <= keycount THEN inner.keys[i - 1]
                ELSE inner.keys[i]],
           !.children = [i \in 0..(INNER_KEYS + 1) |->
                IF i = idx + 1 THEN new_node
                ELSE IF i > idx + 1 /\ i <= keycount + 1 THEN inner.children[i - 1]
                ELSE inner.children[i]],
           !.keycount = keycount + 1]

\* An inner split that copies from the midpoint on, so that the key at index
\* INNER_KEYS_MIDPOINT stays in the new inner node.
UpperHalfFromMidpoint(inner) ==
    LET keycount == inner.keycount
    IN  [NewInnerNode EXCEPT
           !.parent = inner.parent,
           !.keys = [i \in 0..INNER_KEYS |->
                IF i + INNER_KEYS_MIDPOINT < keycount
                THEN inner.keys[i + INNER_KEYS_MIDPOINT] ELSE << >>],
           !.children = [i \in 0..(INNER_KEYS + 1) |->
                IF i + INNER_KEYS_UPPER < keycount + 1
                THEN inner.children[i + INNER_KEYS_UPPER] ELSE 0],
           !.keycount = INNER_KEYS_MIDPOINT]

\* The new inner node of an inner split: the keys and children of `inner` from
\* INNER_KEYS_UPPER on, keycount INNER_KEYS_MIDPOINT.
UpperHalf(inner) ==
    LET keycount == inner.keycount
    IN  [NewInnerNode EXCEPT
           !.parent = inner.parent,
           !.keys = [i \in 0..INNER_KEYS |->
                IF i + INNER_KEYS_UPPER < keycount
                THEN inner.keys[i + INNER_KEYS_UPPER] ELSE << >>],
           !.children = [i \in 0..(INNER_KEYS + 1) |->
                IF i + INNER_KEYS_UPPER < keycount + 1
                THEN inner.children[i + INNER_KEYS_UPPER] ELSE 0],
           !.keycount = INNER_KEYS_MIDPOINT]

\* InnerUpdateAfterSplit when node has no parent: a new top node over node and
\* new_node, with split_key between them.
NewTopNode(s, node, new_node, split_key) ==
    LET top == Len(s.nodes) + 1
        topnode == [NewInnerNode EXCEPT
                       !.keycount = 1,
                       !.keys[0] = split_key,
                       !.children[0] = node,
                       !.children[1] = new_node]
        s1 == AllocNode(s, topnode)
    IN  [s1 EXCEPT !.nodes[node].parent = top,
                   !.nodes[new_node].parent = top,
                   !.tree_top = top]

\* An insertion of split_key and new_node into the top node, whatever the
\* parent of node is.
InsertIntoTop(s, node, new_node, split_key) ==
    [s EXCEPT !.nodes[s.tree_top] = InnerInsert(@, new_node, split_key)]

\* The insertion of split_key and new_node into the parent of node.
InsertIntoParent(s, node, new_node, split_key) ==
    [s EXCEPT !.nodes[s.nodes[node].parent] = InnerInsert(@, new_node, split_key)]

\* An inner split that leaves the parent of the moved children as it was.
SetParentsSkipped(s, moved, new_inner) == s

RECURSIVE SetParents(_, _, _)
\* new_inner->children[i]->parent = new_inner for each child moved.
SetParents(s, moved, new_inner) ==
    IF moved = {} THEN s
    ELSE LET m == CHOOSE x \in moved : TRUE
         IN  SetParents([s EXCEPT !.nodes[m].parent = new_inner],
                        moved \ {m}, new_inner)

\* The split of the overfull inner node `inner` at the midpoint: the new inner
\* node takes the upper keys and children, which now point back to it, and
\* `inner` keeps INNER_KEYS_MIDPOINT keys.
SplitInner(s, inner) ==
    LET new_inner == Len(s.nodes) + 1
        up == UpperHalf(s.nodes[inner])
        moved == {up.children[i] : i \in 0..(s.nodes[inner].keycount - INNER_KEYS_UPPER)}
        s2 == SetParents(AllocNode(s, up), moved, new_inner)
    IN  [s2 EXCEPT !.nodes[inner].keycount = INNER_KEYS_MIDPOINT]

RECURSIVE InnerUpdateAfterSplit(_, _, _, _)
\* KVTree::InnerUpdateAfterSplit
InnerUpdateAfterSplit(s, node, new_node, split_key) ==
    IF s.nodes[node].parent = 0
    THEN NewTopNode(s, node, new_node, split_key)
    ELSE IF s.nodes[s.nodes[node].parent].keycount + 1 <= INNER_KEYS
    THEN InsertIntoParent(s, node, new_node, split_key)
    ELSE InnerUpdateAfterSplit(
             SplitInner(InsertIntoParent(s, node, new_node, split_key),
                        s.nodes[node].parent),
             s.nodes[node].parent,
             Len(s.nodes) + 1,
             InsertIntoParent(s, node, new_node, split_key)
                 .nodes[s.nodes[node].parent].keys[INNER_KEYS_MIDPOINT])

\* A split that updates the inner nodes before its transaction runs: an abort
\* leaves them changed.
LeafSplitFullUpdatesFirst(s, n, hash, key, value, fault, split_key) ==
    LET new_n == Len(s.nodes) + 1
        s1 == InnerUpdateAfterSplit(
                  AllocNode(s, [NewLeafNode EXCEPT !.parent = s.nodes[n].parent]),
                  n, new_n, split_key)
    IN  [st |-> Rollback(s, s1),
         status |-> IF fault = NoFault THEN "OK" ELSE "FAILED",
         faulted |-> fault # NoFault]

\* KVTree::LeafSplitFull with split_key the string the sort left at the
\* midpoint.  Any exception deletes the new descriptor and is thrown on.
LeafSplitFull(s, n, hash, key, value, fault, split_key) ==
    LET new_n == Len(s.nodes) + 1
        s1 == AllocNode(s, [NewLeafNode EXCEPT !.parent = s.nodes[n].parent])
        tk == TakeLeaf(s1, new_n, fault)
        M  == SlotsAbove(s.nodes[n], split_key)
        s2 == MoveSlots(tk.st, n, new_n, M)
        target == IF StrCmp(key, split_key) > 0 THEN new_n ELSE n
        slot == EmptySlotOf(s2.nodes[target])
        s3 == LeafFillEmptySlot(s2, target, hash, key, value)
        thrown(st) == [st |-> Rollback(s, DeleteLastNode(st)), status |-> "FAILED",
                       faulted |-> TRUE]
    IN  IF fault.kind = "begin" THEN thrown(s1)
        ELSE IF ~tk.ok THEN thrown(tk.st)
        ELSE IF fault.kind = "move" /\ fault.slot \in M
        THEN thrown(MoveSlots(tk.st, n, new_n, {i \in M : i > fault.slot}))
        ELSE IF fault.kind = "set" /\ slot >= 0
        THEN thrown(FillMirror(s2, target, hash, key, slot))
        ELSE [st |-> InnerUpdateAfterSplit(s3, n, new_n, split_key),
              status |-> "OK", faulted |-> FALSE]

\* Whether Put(key) reaches LeafSplitFull in state s.
NeedsSplit(s, key) ==
    LET n == LeafSearch(s, key)
    IN  n # 0 /\ SlotForKey(s.nodes[n], PearsonHash(key), key) < 0

\* The split keys the sort can produce for Put(key); one dummy when no split.
SplitKeyChoices(s, key) ==
    IF NeedsSplit(s, key) THEN SplitKeys(s.nodes[LeafSearch(s, key)], key) ELSE {<< >>}

\* KVTree::Put.  The catch clauses turn a thrown transaction error into FAILED.
Put(s, key, value, fault, split_key) ==
    LET hash == PearsonHash(key)
        leafnode == LeafSearch(s, key)
    IN  IF leafnode = 0 THEN PutHead(s, hash, key, value, fault)
        ELSE IF SlotForKey(s.nodes[leafnode], hash, key) >= 0
        THEN LeafFillSlotForKey(s, leafnode, hash, key, value, fault)
        ELSE LeafSplitFull(s, leafnode, hash, key, value, fault, split_key)


\* ----------------------------------------------------------------- remove

\* KVTree::Remove.  The mirror is cleared before the transaction runs; no
\* catch clause surrounds the transaction, so its failure leaves as an exception.
Remove(s, key, fault) ==
    LET n == LeafSearch(s, key)
    IN  IF n = 0 THEN [st |-> s, status |-> "OK", faulted |-> FALSE]
        ELSE LET slot == MatchSlot(s.nodes[n], PearsonHash(key), key)
                 leaf == s.nodes[n].leaf
                 s1 == [s EXCEPT !.nodes[n].hashes[slot] = 0,
                                 !.nodes[n].keys[slot] = << >>]
                 s2 == [s1 EXCEPT !.leaves[leaf].slots[slot] =
                                        SlotClear(s1.leaves[leaf].slots[slot])]
             IN  IF slot < 0 THEN [st |-> s, status |-> "OK", faulted |-> FALSE]
                 ELSE IF fault.kind \in {"begin", "clear"}
                 THEN [st |-> s1, status |-> "EXCEPTION", faulted |-> TRUE]
                 ELSE [st |-> s2, status |-> "OK", faulted |-> FALSE]

\* ---------------------------------------------------------------- recover

\* The highest key of a leaf by strcmp, as Recover's descending scan finds it.
\* Called for leaves with a non-empty slot.
MaxKey(leaf) ==
    LET used == {i \in SlotIdx : leaf.slots[i].ph # 0}
        top  == {i \in used : \A j \in used : LexCmp(SlotKey(leaf.slots[j]),
                                                     SlotKey(leaf.slots[i])) <= 0}
    IN  SlotKey(leaf.slots[Max(top)])

\* The descriptor Recover builds for persistent leaf l.
RecoveredNode(s, l) ==
    [NewLeafNode EXCEPT
        !.leaf = l,
        !.hashes = [i \in SlotIdx |-> s.leaves[l].slots[i].ph],
        !.keys = [i \in SlotIdx |->
                    IF s.leaves[l].slots[i].ph = 0 THEN << >>
                    ELSE SlotKey(s.leaves[l].slots[i])]]

\* The body of Recover's first loop for persistent leaf l, with every leaf
\* taken as a leaf with records.
RecoverLeafAsUsed(s, l, rl) ==
    LET leafnode == Len(s.nodes) + 1
        empty == \A i \in SlotIdx : s.leaves[l].slots[i].ph = 0
    IN  [st |-> AllocNode(s, RecoveredNode(s, l)),
         rl |-> Append(rl, [leafnode |-> leafnode,
                            max_key |-> IF empty THEN << >> ELSE MaxKey(s.leaves[l])])]

\* The body of Recover's first loop for persistent leaf l: a descriptor for the
\* leaf; an empty leaf goes to leaves_prealloc, another to the list of
\* recovered leaves rl.  Result: the state and rl.
RecoverLeaf(s, l, rl) ==
    LET leafnode == Len(s.nodes) + 1
        s1 == AllocNode(s, RecoveredNode(s, l))
        empty == \A i \in SlotIdx : s.leaves[l].slots[i].ph = 0
    IN  IF empty
        THEN [st |-> [s1 EXCEPT !.leaves_prealloc = Append(s.leaves_prealloc, l)],
              rl |-> rl]
        ELSE [st |-> s1,
              rl |-> Append(rl, [leafnode |-> leafnode, max_key |-> MaxKey(s.leaves[l])])]

RECURSIVE RecoverWalk(_, _, _)
\* The first loop of Recover from persistent leaf l on.
RecoverWalk(s, l, rl) ==
    IF l = 0 THEN [st |-> s, rl |-> rl]
    ELSE LET w == RecoverLeaf(s, l, rl)
         IN  RecoverWalk(w.st, s.leaves[l].next, w.rl)

\* The recovered leaves left in the order of the persistent list.
SortRecoveredKeepsOrder(rl) == rl

\* std::list::sort by strcmp of max_key: stable.
SortRecovered(rl) ==
    LET rank(i) == Cardinality({j \in 1..Len(rl) :
                        \/ LexCmp(rl[j].max_key, rl[i].max_key) < 0
                        \/ LexCmp(rl[j].max_key, rl[i].max_key) = 0 /\ j < i})
    IN  [r \in 1..Len(rl) |-> rl[CHOOSE i \in 1..Len(rl) : rank(i) = r - 1]]

RECURSIVE RecoverBuild(_, _)
\* The second loop of Recover over the sorted list rl.
RecoverBuild(s, rl) ==
    IF rl = << >> THEN s
    ELSE LET leafnode == rl[1].leafnode
             s1 == IF s.tree_top = 0 THEN [s EXCEPT !.tree_top = leafnode] ELSE s
             rest == SubSeq(rl, 2, Len(rl))
         IN  IF rest = << >> THEN s1
             ELSE LET nextnode == rest[1].leafnode
                      s2 == [s1 EXCEPT !.nodes[nextnode].parent = s1.nodes[leafnode].parent]
                  IN  RecoverBuild(InnerUpdateAfterSplit(s2, leafnode, nextnode,
                                                         rl[1].max_key), rest)

\* KVTree::Recover in a newly constructed KVTree over the pool of s.
Recover(s) ==
    LET fresh == [s EXCEPT !.nodes = << >>, !.tree_top = 0, !.leaves_prealloc = << >>]
        w == RecoverWalk(fresh, s.head, << >>)
    IN  RecoverBuild([w.st EXCEPT !.tree_top = 0], SortRecovered(w.rl))

\* ------------------------------------------------------------------ state

VARIABLES
    head,             \* root.head
    leaves,           \* the persistent leaves, by address
    nodes,            \* the volatile nodes, by address
    tree_top,         \* KVTree::tree_top
    leaves_prealloc,  \* KVTree::leaves_prealloc
    live,             \* while plain: the keys put and not removed since
    plain,            \* every call so far was a Put or Remove that returned OK
    faults,           \* transaction failures injected so far
    keyset,           \* the keys this run calls the operations with
    ops,              \* calls made so far
    data,             \* the bytes given to PearsonHash on its own
    hash,             \* <<h>> once PearsonHash(data) returned h, << >> before
    configs,          \* the pmem::kv::config objects: alive, and their _config
    deleted,          \* per pmemkv_config made so far: the pmemkv_config_delete calls on it
    handed,           \* the pmemkv_config handles given away by release()
    last_call,        \* the last call made on a config or db object
    dbs,              \* the pmem::kv::db objects: alive, and their _db
    closed            \* per pmemkv_db opened so far: the pmemkv_close calls on it

cfgvars == <<configs, deleted, handed, last_call, dbs, closed>>

vars == <<head, leaves, nodes, tree_top, leaves_prealloc, live, plain, faults, keyset, ops,
          data, hash, configs, deleted, handed, last_call, dbs, closed>>

\* The config objects of a program, and how many pmemkv_config handles
\* pmemkv_config_new gives before it returns nullptr (the handle 0).
NumConfigObjects == 2

MaxConfigHandles == 2

ConfigObjects == 1..NumConfigObjects

\* The db objects of a program, and how many times pmemkv_open gives a
\* pmemkv_db in one run.
NumDbObjects == 2

MaxDbHandles == 3

DbObjects == 1..NumDbObjects

\* No config object is constructed and no pmemkv_config exists.
NoConfigs ==
    /\ configs = [c \in ConfigObjects |-> [alive |-> FALSE, config |-> 0]]
    /\ deleted = << >>
    /\ handed = {}
    /\ last_call = [op |-> "none", object |-> 0, status |-> "OK"]
    /\ dbs = [d \in DbObjects |-> [alive |-> FALSE, db |-> 0]]
    /\ closed = << >>

\* The engine's state as one value.
State ==
    [head |-> head, leaves |-> leaves, nodes |-> nodes, tree_top |-> tree_top,
     leaves_prealloc |-> leaves_prealloc]

\* The engine's next state is s.
Becomes(s) ==
    /\ head' = s.head
    /\ leaves' = s.leaves
    /\ nodes' = s.nodes
    /\ tree_top' = s.tree_top
    /\ leaves_prealloc' = s.leaves_prealloc

\* A new pool, opened: KVTree::KVTree creates the pool and calls Recover.
Init ==
    /\ head = 0
    /\ leaves = << >>
    /\ nodes = << >>
    /\ tree_top = 0
    /\ leaves_prealloc = << >>
    /\ live = {}
    /\ plain = TRUE
    /\ faults = 0
    /\ keyset \in KeyFamilies
    /\ ops = 0
    /\ data = << >>
    /\ hash = << >>
    /\ NoConfigs

\* One more call of the engine.
Step ==
    /\ ops' = ops + 1
    /\ UNCHANGED <<data, hash>>
    /\ UNCHANGED cfgvars

\* Whether the call with result r met fault f.
FaultOk(f, r) == r.faulted = (f # NoFault)

\* The faults a Put(key) can meet in state s (with split_key when it splits).
PutFaults(s, key, split_key) ==
    LET n == LeafSearch(s, key)
        split == NeedsSplit(s, key)
        takes == (n = 0 \/ split) /\ s.leaves_prealloc = << >>
    IN  {f \in Faults :
            \/ f.kind \in {"begin", "set"}
            \/ f.kind = "alloc" /\ takes
            \/ f.kind = "move" /\ split /\ f.slot \in SlotsAbove(s.nodes[n], split_key)}

\* The faults a Remove(key) can meet in state s.
RemoveFaults(s, key) ==
    LET n == LeafSearch(s, key)
    IN  IF n # 0 /\ MatchSlot(s.nodes[n], PearsonHash(key), key) >= 0
        THEN {f \in Faults : f.kind \in {"begin", "clear"}}
        ELSE {}

DoPut(key, value, f, split_key) ==
    LET r == Put(State, key, value, f, split_key)
    IN  /\ FaultOk(f, r)
        /\ Len(r.st.leaves) <= MaxLeaves
        /\ Becomes(r.st)
        /\ plain' = (plain /\ r.status = "OK")
        /\ live' = IF plain' THEN live \cup {key} ELSE {}
        /\ faults' = IF r.faulted THEN faults + 1 ELSE faults
        /\ UNCHANGED keyset
        /\ Step

DoRemove(key, f) ==
    LET r == Remove(State, key, f)
    IN  /\ FaultOk(f, r)
        /\ Becomes(r.st)
        /\ plain' = (plain /\ r.status = "OK")
        /\ live' = IF plain' THEN live \ {key} ELSE {}
        /\ faults' = IF r.faulted THEN faults + 1 ELSE faults
        /\ UNCHANGED keyset
        /\ Step

\* The history variables after the pool was opened again.
Reopened ==
    /\ plain' = FALSE
    /\ live' = {}
    /\ UNCHANGED <<faults, keyset>>
    /\ Step

\* Close and open again: ~KVTree (Shutdown frees the nodes), then KVTree::KVTree.
Reopen ==
    /\ ops < MaxOps
    /\ Becomes(Recover(State))
    /\ Reopened

\* The process stops inside Put(key, value) after its transaction committed,
\* and the pool is opened again.
CrashInPut(key, value, split_key) ==
    LET r == Put(State, key, value, NoFault, split_key)
    IN  /\ Len(r.st.leaves) <= MaxLeaves
        /\ Becomes(Recover(r.st))
        /\ Reopened

\* The process stops inside Remove(key) after its transaction committed, and
\* the pool is opened again.
CrashInRemove(key) ==
    /\ Becomes(Recover(Remove(State, key, NoFault).st))
    /\ Reopened

\* A successful call.
Call ==
    /\ ops < MaxOps
    /\ \/ \E key \in keyset, value \in Values :
             \E split_key \in SplitKeyChoices(State, key) :
                DoPut(key, value, NoFault, split_key)
       \/ \E key \in keyset : DoRemove(key, NoFault)

\* A call whose persistent transaction fails.
FailedCall ==
    /\ ops < MaxOps
    /\ faults < MaxFaults
    /\ \/ \E key \in keyset, value \in Values :
             \E split_key \in SplitKeyChoices(State, key) :
                \E f \in PutFaults(State, key, split_key) :
                   DoPut(key, value, f, split_key)
       \/ \E key \in keyset : \E f \in RemoveFaults(State, key) : DoRemove(key, f)

\* The process stops inside a call and the pool is opened again.  A stop before
\* the call's transaction committed leaves the pool as it was, which is Reopen.
Crash ==
    /\ ops < MaxOps
    /\ \/ \E key \in keyset, value \in Values :
             \E split_key \in SplitKeyChoices(State, key) :
                CrashInPut(key, value, split_key)
       \/ \E key \in keyset : CrashInRemove(key)

Next ==
    \/ Call
    \/ FailedCall
    \/ Reopen
    \/ Crash

Spec == Init /\ [][Next]_vars

\* ------------------------------------------------------------ observation

RECURSIVE ReachFrom(_, _, _)
\* The nodes reachable from the nodes in `frontier` by child links.
ReachFrom(s, frontier, seen) ==
    IF frontier = {} THEN seen
    ELSE LET kids == UNION {{s.nodes[n].children[i] : i \in 0..s.nodes[n].keycount} :
                              n \in {m \in frontier : ~s.nodes[m].is_leaf}}
             new == (kids \ {0}) \ (seen \cup frontier)
         IN  ReachFrom(s, new, seen \cup frontier)

\* The nodes reachable from tree_top.
Reachable(s) == IF s.tree_top = 0 THEN {} ELSE ReachFrom(s, {s.tree_top}, {})

\* The leaf descriptors reachable from tree_top.
ReachableLeafNodes(s) == {n \in Reachable(s) : s.nodes[n].is_leaf}

\* The persistent leaves the reachable descriptors refer to.
ReachableLeaves(s) == {s.nodes[n].leaf : n \in ReachableLeafNodes(s)}

\* The non-empty persistent slots of the reachable leaves, as <<leaf, slot>>.
UsedSlots(s) ==
    {ls \in ReachableLeaves(s) \X SlotIdx : s.leaves[ls[1]].slots[ls[2]].ph # 0}

\* The keys held in the non-empty slots of the reachable leaves.
StoredKeys(s) == {SlotKeyBytes(s.leaves[ls[1]].slots[ls[2]]) : ls \in UsedSlots(s)}

\* The slots of the reachable leaves that hold key.
SlotsOf(s, key) ==
    {ls \in UsedSlots(s) : SlotKeyBytes(s.leaves[ls[1]].slots[ls[2]]) = key}

\* What Get(key, &value) gives for a caller whose string is empty.
Lookup(s, key) == Get(s, key, << >>)

Found(value) == {[status |-> "OK", value |-> value]}

NotFound == {[status |-> "NOT_FOUND", value |-> << >>]}

\* ----------------------------------------------------------------- claims

\* C1: after any sequence of Put and Remove calls that all returned OK, the keys
\* held in the non-empty slots of the reachable leaves are exactly the keys put
\* and not later removed, and no key is held in two slots.
C1_StoredKeysAreLiveKeys ==
    plain => /\ StoredKeys(State) = live
             /\ \A key \in live : Cardinality(SlotsOf(State, key)) = 1

\* C2: in every reachable state, for every key and value (zero bytes included),
\* a Put that returns OK is followed by a Get of the key that returns OK with
\* exactly the bytes of the value.
C2_PutThenGet ==
    \A key \in keyset, value \in Values :
        \A split_key \in SplitKeyChoices(State, key) :
            LET r == Put(State, key, value, NoFault, split_key)
            IN  r.status = "OK" => Lookup(r.st, key) = Found(value)

\* C3: when a key was put with OK and other keys were put or removed with OK
\* since, a second Put of the key that returns OK makes Get deliver the second
\* value and leaves the key in exactly one slot.
C3_LastWriteWins ==
    \A key \in live, value \in Values :
        \A split_key \in SplitKeyChoices(State, key) :
            LET r == Put(State, key, value, NoFault, split_key)
            IN  r.status = "OK" => /\ Lookup(r.st, key) = Found(value)
                                   /\ Cardinality(SlotsOf(r.st, key)) = 1

\* What Get gives for each key of the run.
GetMap(s) == [key \in keyset |-> Lookup(s, key)]

RECURSIVE HeadList(_, _)
\* The persistent leaves linked from leaf l on by next.
HeadList(s, l) == IF l = 0 THEN {} ELSE {l} \cup HeadList(s, s.leaves[l].next)

\* The persistent leaves with a non-empty slot / with none.
NonEmptyLeaves(s) ==
    {l \in DOMAIN s.leaves : \E i \in SlotIdx : s.leaves[l].slots[i].ph # 0}

EmptyLeaves(s) == DOMAIN s.leaves \ NonEmptyLeaves(s)

\* The elements of a sequence.
Range(q) == {q[i] : i \in DOMAIN q}

\* The descriptor of every reachable leaf mirrors its persistent leaf.
Mirrors(s) ==
    \A n \in ReachableLeafNodes(s), i \in SlotIdx :
        LET slot == s.leaves[s.nodes[n].leaf].slots[i]
        IN  /\ s.nodes[n].hashes[i] = slot.ph
            /\ slot.ph # 0 => s.nodes[n].keys[i] = SlotKeyBytes(slot)

\* The keys stored in the persistent leaves of the descriptors under node n.
KeysUnder(s, n) ==
    LET ls == {s.nodes[m].leaf : m \in {x \in ReachFrom(s, {n}, {}) : s.nodes[x].is_leaf}}
    IN  UNION {{SlotKeyBytes(s.leaves[l].slots[i]) :
                   i \in {j \in SlotIdx : s.leaves[l].slots[j].ph # 0}} : l \in ls}

\* The ordering invariant of inner node n, keys compared byte by byte.
InnerOrdered(s, n) ==
    LET inner == s.nodes[n]
    IN  /\ \A i \in 0..(inner.keycount - 2) : LexCmp(inner.keys[i], inner.keys[i + 1]) < 0
        /\ \A i \in 0..(inner.keycount - 1) :
              /\ \A k \in KeysUnder(s, inner.children[i]) : LexCmp(k, inner.keys[i]) <= 0
              /\ \A k \in KeysUnder(s, inner.children[i + 1]) : LexCmp(k, inner.keys[i]) > 0

\* The calls a run can make in state s, as their results.
CallResults(s) ==
    UNION {{Put(s, key, value, NoFault, split_key) :
               value \in Values, split_key \in SplitKeyChoices(s, key)} : key \in keyset}
        \cup {Remove(s, key, NoFault) : key \in keyset}


\* C4: in every reachable state, after a Remove of a key that returns OK a
\* lookup of the key returns NOT_FOUND, and a second Remove of the key returns
\* OK and changes neither the persistent leaves nor the volatile tree.
C4_RemoveThenNotFound ==
    \A key \in keyset :
        LET r == Remove(State, key, NoFault)
            again == Remove(r.st, key, NoFault)
        IN  r.status = "OK" => /\ Lookup(r.st, key) = NotFound
                               /\ again.status = "OK"
                               /\ again.st = r.st

\* C5: Remove returns OK for every key in every reachable state, also when its
\* persistent transaction fails.
C5_RemoveAlwaysOK ==
    \A key \in keyset :
        \A f \in {NoFault} \cup RemoveFaults(State, key) :
            Remove(State, key, f).status = "OK"

\* C6: when every call so far completed without a failed transaction, every
\* reachable leaf descriptor has, slot for slot, the hash of its persistent
\* slot and, where the hash is not 0, the key stored in that slot.
C6_DescriptorMirrorsLeaf == faults = 0 => Mirrors(State)

\* C7: in every state reached without a failed transaction, each reachable
\* inner node has strictly ascending keys, every key stored under children[i]
\* is <= keys[i] and every key stored under children[i+1] is > keys[i].
C7_InnerNodesOrdered ==
    faults = 0 => \A n \in Reachable(State) : ~nodes[n].is_leaf => InnerOrdered(State, n)

\* C8: when the process stops inside a Put or a Remove, before or after its
\* transaction committed, and the pool is opened again, the map Get observes
\* is the map before the call or the map after it.
C8_CrashAtomicity ==
    \A r \in CallResults(State) :
        \A pool \in {State, r.st} :
            GetMap(Recover(pool)) \in {GetMap(State), GetMap(r.st)}

\* C9: in every reachable state, closing and reopening the pool leaves the
\* status and the value Get gives unchanged for every key.
C9_RecoveryEquivalence == GetMap(Recover(State)) = GetMap(State)

\* C10: immediately after Recover the reachable leaf descriptors refer to
\* exactly the persistent leaves with a non-empty slot, the free list holds
\* exactly the leaves with none, no leaf is in both, and all of them are linked
\* from root.head.
C10_RecoverPartitionsLeaves ==
    LET s == Recover(State)
    IN  /\ ReachableLeaves(s) = NonEmptyLeaves(s)
        /\ Range(s.leaves_prealloc) = EmptyLeaves(s)
        /\ ReachableLeaves(s) \cap Range(s.leaves_prealloc) = {}
        /\ ReachableLeaves(s) \cup Range(s.leaves_prealloc) \subseteq HeadList(s, s.head)

\* Recover finds two leaves with records and an empty one.
C10_Witness ==
    LET s == Recover(State)
    IN  /\ Cardinality(ReachableLeaves(s)) >= 2
        /\ s.leaves_prealloc # << >>


\* The results of Put(key, ...) in state s for every value, every split key the
\* sort can give and every place the transaction can fail at.
FailedPuts(s, key) ==
    UNION {{Put(s, key, value, f, split_key) : f \in PutFaults(s, key, split_key) \ {NoFault}} :
              <<value, split_key>> \in Values \X SplitKeyChoices(s, key)}

\* C11: a Put that returns a failure status (its transaction aborted) leaves
\* the lookup of its key as it was: NOT_FOUND for an absent key, OK with the
\* prior value for a present one.  Stated for the first failure of a run.
C11_FailedPutKeepsLookup ==
    faults = 0 =>
        \A key \in keyset : \A r \in FailedPuts(State, key) :
            r.status = "FAILED" => Lookup(r.st, key) = Lookup(State, key)

\* The status values a call can return to its caller.
Statuses == {"OK", "FAILED", "NOT_FOUND"}

\* C12: whenever the persistent transaction inside Put or Remove aborts, the
\* call still returns a status value (Get runs no transaction).
C12_NoExceptionEscapes ==
    \A key \in keyset :
        /\ \A r \in FailedPuts(State, key) : r.status \in Statuses
        /\ \A f \in RemoveFaults(State, key) : Remove(State, key, f).status \in Statuses
        /\ \A g \in Lookup(State, key) : faults = 0 => g.status \in Statuses

\* The inner nodes of state s, by address.
InnerNodes(s) == [n \in {m \in DOMAIN s.nodes : ~s.nodes[m].is_leaf} |-> s.nodes[n]]

\* C13: when the transaction of a leaf split aborts (in the allocation of the
\* new leaf, in a slot move or in the buffer allocation of the new record), the
\* old leaf's descriptor has the hashes and keys it had before the Put and
\* mirrors its rolled-back persistent leaf, and tree_top and every inner node
\* are unchanged.  Stated for the first failure of a run.
C13_AbortedSplitKeepsDescriptor ==
    faults = 0 =>
        \A key \in {k \in keyset : NeedsSplit(State, k)} :
            \A r \in FailedPuts(State, key) :
                LET n == LeafSearch(State, key)
                IN  /\ r.st.nodes[n].hashes = nodes[n].hashes
                    /\ r.st.nodes[n].keys = nodes[n].keys
                    /\ Mirrors(State) => Mirrors(r.st)
                    /\ r.st.tree_top = tree_top
                    /\ InnerNodes(r.st) = InnerNodes(State)

\* C14: when the transaction of Remove(key) aborts, the descriptor's hash and
\* key of the slot are unchanged, the key is still found with its prior value
\* and the descriptor still mirrors the persistent slot.  Stated for the first
\* failure of a run.
C14_AbortedRemoveKeepsDescriptor ==
    faults = 0 =>
        \A key \in keyset : \A f \in RemoveFaults(State, key) :
            LET r == Remove(State, key, f)
                n == LeafSearch(State, key)
            IN  /\ r.st.nodes[n].hashes = nodes[n].hashes
                /\ r.st.nodes[n].keys = nodes[n].keys
                /\ Lookup(r.st, key) = Lookup(State, key)
                /\ Mirrors(State) => Mirrors(r.st)


\* The run so far put ops distinct keys into the empty engine and did nothing else.
OnlyDistinctPuts == plain /\ Cardinality(live) = ops

\* The volatile tree is one inner node with one key over two leaf descriptors.
OneInnerOverTwoLeaves(s) ==
    /\ s.tree_top # 0
    /\ ~s.nodes[s.tree_top].is_leaf
    /\ s.nodes[s.tree_top].keycount = 1
    /\ \A i \in 0..1 : s.nodes[s.nodes[s.tree_top].children[i]].is_leaf
    /\ s.nodes[s.tree_top].children[0] # s.nodes[s.tree_top].children[1]

\* C15: after LEAF_KEYS + 1 distinct keys were put into an empty engine, in any
\* order, there was exactly one leaf split: the persistent leaf list has length
\* 2 and the tree is one inner node with keycount 1 over two leaf descriptors.
C15_OneSplitAfterLeafKeysPlusOne ==
    (OnlyDistinctPuts /\ ops = LEAF_KEYS + 1) =>
        /\ Cardinality(HeadList(State, head)) = 2
        /\ OneInnerOverTwoLeaves(State)


\* --------------------------------------------------- ascending insertion

\* The number of keys of an ascending run.
AscendingCount == LEAF_KEYS * (INNER_KEYS + 2)

\* Keys to spare in the pools an ascending run draws its keys from.
SpareKeys == 2

\* One-byte keys without zero bytes, and keys made of zero bytes only.
AscendingPlainPool == {<<i>> : i \in 1..(AscendingCount + SpareKeys)}

AscendingZeroPool == {[j \in 1..len |-> 0] : len \in 0..(AscendingCount + SpareKeys - 1)}

\* The value an ascending run puts with key: no zero byte in it.
ValueOf(key) == <<9>> \o [i \in 1..Len(key) |-> key[i] + 1]

\* The bytewise least key of a non-empty set of keys.
LeastKey(S) == CHOOSE k \in S : \A j \in S : LexCmp(k, j) <= 0

\* A new pool, opened, and the keys the run is going to put.
InitAscending ==
    /\ head = 0
    /\ leaves = << >>
    /\ nodes = << >>
    /\ tree_top = 0
    /\ leaves_prealloc = << >>
    /\ live = {}
    /\ plain = TRUE
    /\ faults = 0
    /\ keyset \in {S \in SUBSET AscendingPlainPool \cup SUBSET AscendingZeroPool :
                      Cardinality(S) = AscendingCount}
    /\ ops = 0
    /\ data = << >>
    /\ hash = << >>
    /\ NoConfigs

\* Put of the next key in ascending order, with the split key the sort gives.
PutNext ==
    /\ live # keyset
    /\ LET key == LeastKey(keyset \ live)
       IN  \E split_key \in SplitKeyChoices(State, key) :
              LET r == Put(State, key, ValueOf(key), NoFault, split_key)
              IN  /\ Becomes(r.st)
                  /\ live' = live \cup {key}
                  /\ Step
                  /\ UNCHANGED <<plain, faults, keyset>>

NextAscending == PutNext

SpecAscending == InitAscending /\ [][NextAscending]_vars

\* An inner node was split: some inner node has a parent.
InnerSplitHappened(s) ==
    \E n \in DOMAIN s.nodes : ~s.nodes[n].is_leaf /\ s.nodes[n].parent # 0

\* C16: after LEAF_KEYS * (INNER_KEYS + 2) keys were put in ascending order into
\* an empty engine, at least one inner node was split and Get finds every key
\* with its value.
C16_AscendingInsertSplitsInner ==
    (Cardinality(keyset) = AscendingCount /\ live = keyset) =>
        /\ InnerSplitHappened(State)
        /\ \A key \in keyset : Lookup(State, key) = Found(ValueOf(key))


\* ------------------------------------------------ empty key, empty value

\* The empty key among keys without zero bytes.
EmptyKeyFamily == {<< >>, <<1>>, <<2>>, <<3>>}

\* The empty value and another.
EmptyValues == {<< >>, <<5>>}

InitEmpty ==
    /\ head = 0
    /\ leaves = << >>
    /\ nodes = << >>
    /\ tree_top = 0
    /\ leaves_prealloc = << >>
    /\ live = {}
    /\ plain = TRUE
    /\ faults = 0
    /\ keyset = EmptyKeyFamily
    /\ ops = 0
    /\ data = << >>
    /\ hash = << >>
    /\ NoConfigs

PutEmpty ==
    /\ ops < MaxOps
    /\ \E key \in keyset, value \in EmptyValues :
          \E split_key \in SplitKeyChoices(State, key) :
             DoPut(key, value, NoFault, split_key)

RemoveEmpty ==
    /\ ops < MaxOps
    /\ \E key \in keyset : DoRemove(key, NoFault)

NextEmpty ==
    \/ PutEmpty
    \/ RemoveEmpty
    \/ Reopen

SpecEmpty == InitEmpty /\ [][NextEmpty]_vars

\* Put(key, value) in state s can be found, recovered after a reopening and
\* removed: Get gives OK with the value after the Put and after Recover, and
\* NOT_FOUND after a Remove, also after Recover.
PutFoundRemovedRecovered(s, key, value) ==
    \A split_key \in SplitKeyChoices(s, key) :
        LET r == Put(s, key, value, NoFault, split_key)
            d == Remove(r.st, key, NoFault)
        IN  /\ r.status = "OK"
            /\ Lookup(r.st, key) = Found(value)
            /\ Cardinality(SlotsOf(r.st, key)) = 1
            /\ Lookup(Recover(r.st), key) = Found(value)
            /\ d.status = "OK"
            /\ Lookup(d.st, key) = NotFound
            /\ Lookup(Recover(d.st), key) = NotFound

\* C17: the empty key, and any key with the empty value, can be put, found by
\* Get with status OK, removed, and recovered after a reopening; the empty key
\* is held in a non-empty slot and a stored empty value gives OK, not NOT_FOUND.
C17_EmptyKeyAndEmptyValue ==
    faults = 0 =>
        \A key \in keyset, value \in EmptyValues :
            (key = << >> \/ value = << >>) =>
                /\ PutFoundRemovedRecovered(State, key, value)
                /\ Found(value) # NotFound


\* ------------------------------------------------ keys with zero bytes

\* Put(key, value) in state s leaves the record of every other key as it was,
\* and both are as they should be after a reopening.
PutKeepsOthers(s, key, value) ==
    \A split_key \in SplitKeyChoices(s, key) :
        LET r == Put(s, key, value, NoFault, split_key)
        IN  r.status = "OK" =>
                /\ Lookup(r.st, key) = Found(value)
                /\ Lookup(Recover(r.st), key) = Found(value)
                /\ Cardinality(SlotsOf(r.st, key)) = 1
                /\ \A other \in keyset \ {key} :
                      /\ Lookup(r.st, other) = Lookup(s, other)
                      /\ Lookup(Recover(r.st), other) = Lookup(s, other)

\* C18: keys are records by their bytes, zero bytes included: a Put of one key
\* (with a value without zero bytes) never overwrites or hides another key,
\* whatever their hashes, and the put key is held with its own bytes in one
\* slot and found with its value, before and after a reopening.
C18_ZeroByteKeysDistinct ==
    faults = 0 =>
        \A key \in keyset, value \in {v \in Values : CStr(v) = v} :
            PutKeepsOthers(State, key, value)


\* ---------------------------------------------------------- the hash alone

MaxHashLen == 3

\* Bytes of the hashed data: the zero byte, 15 (a one-byte key whose table
\* entry is 0), and 200, a byte that is negative as a signed char.
HashBytes == {0, 1, 15, 200}

HashInputs == UNION {[1..len -> HashBytes] : len \in 0..MaxHashLen}

\* PEARSON_LOOKUP_TABLE[hash ^ data[i]]: data is const char*, so where char is
\* signed a byte above 127 makes the index negative and the read falls before
\* the table, giving any byte; where char is unsigned it is the table entry.
TableRead(h, byte) ==
    IF byte < 128 THEN {PEARSON_LOOKUP_TABLE[Xor(h, byte) + 1]} ELSE 0..255

RECURSIVE PearsonLoopOutcomes(_, _, _)
\* The loop of PearsonHash, from each hash of hashes on.
PearsonLoopOutcomes(bytes, i, hashes) ==
    IF i > 0
    THEN PearsonLoopOutcomes(bytes, i - 1, UNION {TableRead(h, bytes[i]) : h \in hashes})
    ELSE hashes

\* KVTree::PearsonHash: the values it can return.
PearsonHashOutcomes(bytes) ==
    {HashRemap(h) : h \in PearsonLoopOutcomes(bytes, Len(bytes), {Len(bytes) % 256})}

InitHash ==
    /\ head = 0
    /\ leaves = << >>
    /\ nodes = << >>
    /\ tree_top = 0
    /\ leaves_prealloc = << >>
    /\ live = {}
    /\ plain = TRUE
    /\ faults = 0
    /\ keyset = {}
    /\ ops = 0
    /\ data \in HashInputs
    /\ hash = << >>
    /\ NoConfigs

\* A call of PearsonHash(data, size).
HashCall ==
    /\ hash = << >>
    /\ \E h \in PearsonHashOutcomes(data) : hash' = <<h>>
    /\ UNCHANGED <<head, leaves, nodes, tree_top, leaves_prealloc, live, plain,
                   faults, keyset, ops, data>>
    /\ UNCHANGED cfgvars

NextHash == HashCall

SpecHash == InitHash /\ [][NextHash]_vars

\* C19: PearsonHash never returns 0, whatever the bytes and the length of the
\* key (the empty key included), so a slot set with the hash of a key never has
\* the hash of the empty slot; for bytes below 128 the value is PearsonHash's.
C19_HashNeverZero ==
    /\ hash # << >> => hash[1] # 0
    /\ \A h \in PearsonHashOutcomes(data) :
          /\ h # 0
          /\ \A value \in Values : SlotSet(EmptySlot, h, data, value).ph # EmptySlot.ph
    /\ (\A i \in DOMAIN data : data[i] < 128) =>
          PearsonHashOutcomes(data) = {PearsonHash(data)}

\* PearsonHash returned 1 for a one-byte key whose table entry is 0.
C19_Witness ==
    /\ data = <<15>>
    /\ PearsonLoop(data, Len(data), Len(data) % 256) = 0
    /\ hash = <<1>>


\* ------------------------------------------------------- slot hash and buffer

\* The hash of the slot is 0 exactly when its buffer is null, and otherwise it
\* is PearsonHash of the key bytes in the buffer.
SlotHashAgrees(slot) ==
    /\ slot.ph = 0 <=> slot.kv = << >>
    /\ slot.ph # 0 => slot.ph = PearsonHash(SlotKeyBytes(slot))

\* C20: in every reachable persistent state every slot of every leaf has hash 0
\* exactly when its buffer is null and otherwise the PearsonHash of its key;
\* KVSlot::set with a key's hash and KVSlot::clear keep this for every slot.
C20_SlotHashMatchesBuffer ==
    \A l \in DOMAIN leaves : \A i \in SlotIdx :
        LET slot == leaves[l].slots[i]
        IN  /\ SlotHashAgrees(slot)
            /\ SlotHashAgrees(SlotClear(slot))
            /\ \A key \in keyset, value \in Values :
                  SlotHashAgrees(SlotSet(slot, PearsonHash(key), key, value))

\* After a split moved a slot to a second leaf, a Remove has cleared every
\* slot of one leaf while another leaf holds a key.
C20_Witness ==
    /\ plain
    /\ tree_top # 0
    /\ ~nodes[tree_top].is_leaf
    /\ \E l, m \in HeadList(State, head) :
          /\ \A i \in SlotIdx : leaves[l].slots[i] = EmptySlot
          /\ \E i \in SlotIdx : leaves[m].slots[i].ph # 0


\* ------------------------------------------------------------ tree_top

\* What Put(key, ...) can give in state s, with and without a failed
\* transaction.
PutResults(s, key) ==
    FailedPuts(s, key) \cup
        {Put(s, key, value, NoFault, split_key) :
            value \in Values, split_key \in SplitKeyChoices(s, key)}

\* What Remove(key) can give in state s, with and without a failed transaction.
RemoveResults(s, key) ==
    {Remove(s, key, f) : f \in RemoveFaults(s, key) \cup {NoFault}}

\* C21 as amended: tree_top is null in a newly created engine; a Put leaves it
\* null exactly when it was null and the Put did not return OK; a Remove never
\* changes whether it is null; and after Recover it is null exactly when no
\* leaf of the root.head list has a non-empty slot.
C21_TreeTopNullSinceOpen ==
    /\ ops = 0 => tree_top = 0
    /\ \A key \in keyset :
          /\ \A r \in PutResults(State, key) :
                r.st.tree_top = 0 <=> (tree_top = 0 /\ r.status # "OK")
          /\ \A r \in RemoveResults(State, key) :
                r.st.tree_top = 0 <=> tree_top = 0
    /\ Recover(State).tree_top = 0 <=> HeadList(State, head) \cap NonEmptyLeaves(State) = {}

\* C21 as the spec words it: tree_top is null exactly when no record was ever
\* inserted and no persistent leaf exists (leaves are never deleted, so the
\* root.head list is empty exactly then).
C21_TreeTopNullIffNoLeaf ==
    tree_top = 0 <=> head = 0

\* tree_top is null again after a reopening found only an empty leaf.
C21_Witness ==
    /\ tree_top = 0
    /\ head # 0
    /\ leaves_prealloc # << >>
    /\ faults = 0


\* ------------------------------------------------------- leaves and free list

\* How often leaf l is on the free list / referenced by a reachable descriptor.
FreeCount(s, l) == Cardinality({i \in DOMAIN s.leaves_prealloc : s.leaves_prealloc[i] = l})

RefCount(s, l) == Cardinality({n \in ReachableLeafNodes(s) : s.nodes[n].leaf = l})

\* Leaf l is on the free list with all slots empty, or referenced by exactly
\* one reachable leaf descriptor, and not both.
LeafPlaced(s, l) ==
    \/ /\ FreeCount(s, l) = 1
       /\ RefCount(s, l) = 0
       /\ \A i \in SlotIdx : s.leaves[l].slots[i] = EmptySlot
    \/ /\ FreeCount(s, l) = 0
       /\ RefCount(s, l) = 1

\* C22: after every operation, failed or not, every persistent leaf linked
\* from root.head is on the free list with all slots empty, or referenced by
\* exactly one leaf descriptor reachable from tree_top, and not both.
C22_LeafFreeOrReferenced ==
    \A l \in HeadList(State, head) : LeafPlaced(State, l)


\* ------------------------------------------------------ the persistent list

\* The leaves of s are linked in t as they are in s.
LinksKept(s, t) ==
    \A l \in DOMAIN s.leaves : t.leaves[l].next = s.leaves[l].next

\* The root.head list of t is that of s.
SameList(s, t) ==
    /\ t.head = s.head
    /\ DOMAIN t.leaves = DOMAIN s.leaves
    /\ LinksKept(s, t)

\* The root.head list of t is that of s behind one new leaf.
OneLeafPrepended(s, t) ==
    /\ Len(t.leaves) = Len(s.leaves) + 1
    /\ t.head = Len(t.leaves)
    /\ t.leaves[t.head].next = s.head
    /\ LinksKept(s, t)

\* C23: the root.head list never loses a leaf: every allocated leaf is on it
\* and it has no cycle; a Remove leaves it as it is, also when it empties a
\* leaf; a Put leaves it as it is or puts one new leaf in front whose next is
\* the former head; a failed call and Recover leave it as it is.
C23_LeafListNeverLosesLeaf ==
    /\ \A l \in DOMAIN leaves : leaves[l].next < l
    /\ HeadList(State, head) = DOMAIN leaves
    /\ SameList(State, Recover(State))
    /\ \A key \in keyset :
          /\ \A r \in RemoveResults(State, key) : SameList(State, r.st)
          /\ \A r \in PutResults(State, key) :
                /\ SameList(State, r.st) \/ OneLeafPrepended(State, r.st)
                /\ r.status # "OK" => SameList(State, r.st)
                /\ HeadList(State, head) \subseteq HeadList(r.st, r.st.head)

\* A list of two leaves, the second put in front by a split, one of them
\* emptied by Remove since.
C23_Witness ==
    /\ plain
    /\ Cardinality(HeadList(State, head)) >= 2
    /\ leaves[head].next # 0
    /\ \E l \in HeadList(State, head) : \A i \in SlotIdx : leaves[l].slots[i] = EmptySlot


\* ---------------------------------------------------- reuse of free leaves

\* Put(key) in state s needs a leaf: the tree is empty or the key's leaf is full.
NeedsLeaf(s, key) == LeafSearch(s, key) = 0 \/ NeedsSplit(s, key)

\* The free list of t is that of s without its last leaf.
FreeListPopped(s, t) ==
    /\ s.leaves_prealloc # << >>
    /\ t.leaves_prealloc = SubSeq(s.leaves_prealloc, 1, Len(s.leaves_prealloc) - 1)

\* C24: a Put that returns OK and needs a leaf while the free list is not
\* empty takes the leaf from the free list and allocates none (the root.head
\* list is unchanged and the free list is one shorter); it allocates a leaf
\* only when the free list is empty; a Put that needs no leaf changes neither.
C24_FreeLeafReused ==
    \A key \in keyset, value \in Values :
        \A split_key \in SplitKeyChoices(State, key) :
            LET r == Put(State, key, value, NoFault, split_key)
            IN  /\ (NeedsLeaf(State, key) /\ leaves_prealloc # << >>) =>
                      /\ SameList(State, r.st)
                      /\ FreeListPopped(State, r.st)
                      /\ RefCount(r.st, leaves_prealloc[Len(leaves_prealloc)]) >= 1
                /\ (NeedsLeaf(State, key) /\ leaves_prealloc = << >>) =>
                      /\ OneLeafPrepended(State, r.st)
                      /\ r.st.leaves_prealloc = << >>
                /\ ~NeedsLeaf(State, key) =>
                      /\ SameList(State, r.st)
                      /\ r.st.leaves_prealloc = leaves_prealloc

\* A split is due for keys without zero bytes while the free list holds a leaf.
C24_Witness ==
    /\ leaves_prealloc # << >>
    /\ faults = 0
    /\ keyset = PlainKeys
    /\ \E key \in keyset : NeedsSplit(State, key)


\* ------------------------------------------------------- pmem::kv::config

\* A release() that returns the handle and keeps it in the object.
ConfigReleaseKeeps(obj) == obj

\* config::release: the object afterwards (the handle returned is obj.config).
ConfigRelease(obj) == [obj EXCEPT !.config = 0]

\* pmemkv_config_delete(h), for h that is not nullptr.
ConfigDelete(del, h) == IF h = 0 THEN del ELSE [del EXCEPT ![h] = @ + 1]

\* A call on config object c that was `op`.
Called(op, c, status) == last_call' = [op |-> op, object |-> c, status |-> status]

EngineUntouched ==
    UNCHANGED <<head, leaves, nodes, tree_top, leaves_prealloc, live, plain, faults,
                keyset, ops, data, hash>>

InitConfig ==
    /\ head = 0
    /\ leaves = << >>
    /\ nodes = << >>
    /\ tree_top = 0
    /\ leaves_prealloc = << >>
    /\ live = {}
    /\ plain = TRUE
    /\ faults = 0
    /\ keyset = {}
    /\ ops = 0
    /\ data = << >>
    /\ hash = << >>
    /\ NoConfigs

\* config::config()
ConfigConstruct(c) ==
    /\ ~configs[c].alive
    /\ configs' = [configs EXCEPT ![c] = [alive |-> TRUE, config |-> 0]]
    /\ Called("construct", c, "OK")
    /\ UNCHANGED <<deleted, handed>>

\* config::config(config &&other)
ConfigMoveConstruct(c, other) ==
    /\ c # other
    /\ ~configs[c].alive
    /\ configs[other].alive
    /\ configs' = [configs EXCEPT ![c] = [alive |-> TRUE, config |-> configs[other].config],
                                  ![other].config = 0]
    /\ Called("move", c, "OK")
    /\ UNCHANGED <<deleted, handed>>

\* config::operator=(config &&other); other may be the object itself.
ConfigMoveAssign(c, other) ==
    /\ configs[c].alive
    /\ configs[other].alive
    /\ deleted' = ConfigDelete(deleted, configs[c].config)
    /\ LET assigned == [configs EXCEPT ![c].config = configs[other].config]
       IN  configs' = [assigned EXCEPT ![other].config = 0]
    /\ Called("assign", c, "OK")
    /\ UNCHANGED handed

\* config::put_*: init(), then the put on the handle.  pmemkv_config_new gives
\* a new handle or nullptr.
ConfigPut(c) ==
    /\ configs[c].alive
    /\ \/ /\ configs[c].config # 0
          /\ Called("put", c, "OK")
          /\ UNCHANGED <<configs, deleted, handed>>
       \/ /\ configs[c].config = 0
          /\ Len(deleted) < MaxConfigHandles
          /\ deleted' = Append(deleted, 0)
          /\ configs' = [configs EXCEPT ![c].config = Len(deleted) + 1]
          /\ Called("put", c, "OK")
          /\ UNCHANGED handed
       \/ /\ configs[c].config = 0
          /\ Called("put", c, "UNKNOWN_ERROR")
          /\ UNCHANGED <<configs, deleted, handed>>

\* config::release() called by the program.
ConfigReleaseCall(c) ==
    /\ configs[c].alive
    /\ handed' = handed \cup ({configs[c].config} \ {0})
    /\ configs' = [configs EXCEPT ![c] = ConfigRelease(configs[c])]
    /\ Called("release", c, "OK")
    /\ UNCHANGED deleted

\* db::open(engine_name, std::move(cfg)): pmemkv_open gets cfg.release() and
\* returns OK or an error.
DbOpen(c) ==
    /\ configs[c].alive
    /\ handed' = handed \cup ({configs[c].config} \ {0})
    /\ configs' = [configs EXCEPT ![c] = ConfigRelease(configs[c])]
    /\ \E status \in {"OK", "WRONG_ENGINE_NAME", "CONFIG_PARSING_ERROR"} :
          Called("open", c, status)
    /\ UNCHANGED deleted

\* config::~config()
ConfigDestroy(c) ==
    /\ configs[c].alive
    /\ deleted' = ConfigDelete(deleted, configs[c].config)
    /\ configs' = [configs EXCEPT ![c] = [alive |-> FALSE, config |-> 0]]
    /\ Called("destroy", c, "OK")
    /\ UNCHANGED handed

NextConfig ==
    \E c \in ConfigObjects :
        /\ EngineUntouched
        /\ UNCHANGED <<dbs, closed>>
        /\ \/ ConfigConstruct(c)
           \/ \E other \in ConfigObjects : ConfigMoveConstruct(c, other)
           \/ \E other \in ConfigObjects : ConfigMoveAssign(c, other)
           \/ ConfigPut(c)
           \/ ConfigReleaseCall(c)
           \/ DbOpen(c)
           \/ ConfigDestroy(c)

SpecConfig == InitConfig /\ [][NextConfig]_vars

\* C25: after db::open(name, std::move(cfg)) the config object holds null,
\* whatever the status; and over every sequence of put, move construction, move
\* assignment, release, open and destruction, every pmemkv_config is deleted by
\* the config class at most once and never when it was handed over, and it is
\* held by at most one config object, which holds no deleted or handed handle.
C25_ConfigOwnership ==
    /\ last_call.op = "open" => configs[last_call.object].config = 0
    /\ \A h \in DOMAIN deleted :
          /\ deleted[h] <= 1
          /\ h \in handed => deleted[h] = 0
          /\ Cardinality({c \in ConfigObjects : configs[c].config = h})
                <= (IF deleted[h] = 0 /\ h \notin handed THEN 1 ELSE 0)

\* An open that failed took a handle from its config object, after another
\* handle was deleted by the class.
C25_Witness ==
    /\ last_call.op = "open"
    /\ last_call.status # "OK"
    /\ handed # {}
    /\ \E h \in DOMAIN deleted : deleted[h] = 1


\* ------------------------------------------------------- range operations

\* The records held in the non-empty slots of the reachable leaves, with all
\* their bytes.
Records(s) ==
    {[key |-> SlotKeyBytes(s.leaves[ls[1]].slots[ls[2]]),
      value |-> SlotValBytes(s.leaves[ls[1]].slots[ls[2]])] : ls \in UsedSlots(s)}

RECURSIVE SortedByKey(_)
\* A set of records as a sequence in ascending order of key
\* (std::lexicographical_compare).
SortedByKey(recs) ==
    IF recs = {} THEN << >>
    ELSE LET least == CHOOSE r \in recs : \A q \in recs : LexCmp(r.key, q.key) <= 0
         IN  <<least>> \o SortedByKey(recs \ {least})

\* The records of s with key1 < key < key2.
Between(s, key1, key2) ==
    {r \in Records(s) : LexCmp(key1, r.key) < 0 /\ LexCmp(r.key, key2) < 0}

Above(s, key) == {r \in Records(s) : LexCmp(key, r.key) < 0}

EqualAbove(s, key) == {r \in Records(s) : LexCmp(key, r.key) <= 0}

Below(s, key) == {r \in Records(s) : LexCmp(r.key, key) < 0}

EqualBelow(s, key) == {r \in Records(s) : LexCmp(r.key, key) <= 0}

\* A trampoline that calls the function and returns 0 to the engine.
call_get_kv_function_returns_zero(key, value, f, n) ==
    [ret |-> 0, seen |-> [key |-> key, value |-> value]]

\* call_get_kv_function: the n-th call of the user's function f (a sequence of
\* the values it returns) with string_views of keybytes and valuebytes bytes:
\* what f sees and what goes back to the engine.
call_get_kv_function(key, value, f, n) ==
    [ret |-> f[n], seen |-> [key |-> key, value |-> value]]

RECURSIVE EngineIterate(_, _, _)
\* The engine's iteration over the records `todo`: the callback is called per
\* record, and a non-zero return stops it.
EngineIterate(todo, f, visited) ==
    IF todo = << >> THEN [status |-> "OK", visited |-> visited]
    ELSE LET call == call_get_kv_function(Head(todo).key, Head(todo).value, f,
                                          Len(visited) + 1)
         IN  IF call.ret # 0
             THEN [status |-> "STOPPED_BY_CB", visited |-> Append(visited, call.seen)]
             ELSE EngineIterate(Tail(todo), f, Append(visited, call.seen))

pmemkv_count_between(s, key1, key2) == Cardinality(Between(s, key1, key2))

pmemkv_get_all(s, f) == EngineIterate(SortedByKey(Records(s)), f, << >>)

pmemkv_get_above(s, key, f) == EngineIterate(SortedByKey(Above(s, key)), f, << >>)

pmemkv_get_equal_above(s, key, f) == EngineIterate(SortedByKey(EqualAbove(s, key)), f, << >>)

pmemkv_get_below(s, key, f) == EngineIterate(SortedByKey(Below(s, key)), f, << >>)

pmemkv_get_equal_below(s, key, f) == EngineIterate(SortedByKey(EqualBelow(s, key)), f, << >>)

pmemkv_get_between(s, key1, key2, f) ==
    EngineIterate(SortedByKey(Between(s, key1, key2)), f, << >>)

\* A count_between that passes its keys the other way round.
count_between_swapped(s, key1, key2) == pmemkv_count_between(s, key2, key1)

\* db::count_between
count_between(s, key1, key2) == pmemkv_count_between(s, key1, key2)

\* db::get_all(std::function<get_kv_function>) and the other get_* ranges.
get_all(s, f) == pmemkv_get_all(s, f)

get_above(s, key, f) == pmemkv_get_above(s, key, f)

get_equal_above(s, key, f) == pmemkv_get_equal_above(s, key, f)

get_below(s, key, f) == pmemkv_get_below(s, key, f)

get_equal_below(s, key, f) == pmemkv_get_equal_below(s, key, f)

get_between(s, key1, key2, f) == pmemkv_get_between(s, key1, key2, f)

\* The functions a program passes: what each call returns, 0 or not.
UserFunctions == [1..Cardinality(keyset) -> {0, 1}]

\* The function that returns 0 every time.
Continue == [n \in 1..Cardinality(keyset) |-> 0]

\* The keys a sequence of visits saw.
KeysSeen(visited) == {visited[i].key : i \in DOMAIN visited}

\* C26: count_between(K1, K2) counts, and get_between(K1, K2, f) visits,
\* exactly the stored records with K1 < key < K2: never a record whose key is
\* K1 or K2; before a reopening these are the keys put and not removed.
C26_BetweenIsExclusive ==
    \A key1 \in keyset, key2 \in keyset :
        LET inside == {k \in StoredKeys(State) : LexCmp(key1, k) < 0 /\ LexCmp(k, key2) < 0}
            r == get_between(State, key1, key2, Continue)
        IN  /\ count_between(State, key1, key2) = Cardinality(inside)
            /\ r.status = "OK"
            /\ KeysSeen(r.visited) = inside
            /\ Len(r.visited) = Cardinality(inside)
            /\ key1 \notin KeysSeen(r.visited)
            /\ key2 \notin KeysSeen(r.visited)
            /\ plain => inside = {k \in live : LexCmp(key1, k) < 0 /\ LexCmp(k, key2) < 0}

\* Both bounds and a key between them are stored.
C26_Witness ==
    /\ {<< >>, <<1>>, <<2>>} \subseteq StoredKeys(State)
    /\ count_between(State, << >>, <<2>>) = 1
    /\ ~plain


\* The results of the get_* range operations in state s for function f, each
\* with the records it matches.
RangeResults(s, f) ==
    {[result |-> get_all(s, f), matching |-> Records(s)]}
        \cup {[result |-> get_above(s, key, f), matching |-> Above(s, key)] : key \in keyset}
        \cup {[result |-> get_equal_above(s, key, f), matching |-> EqualAbove(s, key)] :
                 key \in keyset}
        \cup {[result |-> get_below(s, key, f), matching |-> Below(s, key)] : key \in keyset}
        \cup {[result |-> get_equal_below(s, key, f), matching |-> EqualBelow(s, key)] :
                 key \in keyset}
        \cup {[result |-> get_between(s, k[1], k[2], f), matching |-> Between(s, k[1], k[2])] :
                 k \in keyset \X keyset}

\* The calls of f, among the first `count`, that return non-zero.
Stops(f, count) == {n \in 1..count : f[n] # 0}

\* C27: every get_* range operation passes the records to the function in
\* ascending order of key; it visits no record after the first call that
\* returned non-zero and then returns STOPPED_BY_CB; when every call returned
\* zero it has visited all the matching records and returns OK.
C27_AscendingAndStoppable ==
    \A f \in UserFunctions : \A q \in RangeResults(State, f) :
        LET visited == q.result.visited
            count == Cardinality(q.matching)
            stops == Stops(f, count)
        IN  /\ \A i, j \in DOMAIN visited :
                  i < j => LexCmp(visited[i].key, visited[j].key) < 0
            /\ \A i \in DOMAIN visited : visited[i] \in q.matching
            /\ \A i \in DOMAIN visited : \A m \in q.matching :
                  LexCmp(m.key, visited[i].key) < 0 => m \in {visited[j] : j \in 1..i}
            /\ stops # {} => /\ Len(visited) = Min(stops)
                             /\ q.result.status = "STOPPED_BY_CB"
            /\ stops = {} => /\ Len(visited) = count
                             /\ q.result.status = "OK"

\* Three records are stored; a function that returns non-zero at its second
\* call has seen the two least keys and get_all returns STOPPED_BY_CB.
C27_Witness ==
    /\ Cardinality(StoredKeys(State)) >= 3
    /\ \E f \in UserFunctions :
          /\ f[1] = 0
          /\ f[2] # 0
          /\ get_all(State, f).status = "STOPPED_BY_CB"
          /\ Len(get_all(State, f).visited) = 2


\* ------------------------------------------------------------ leaf split

\* The records in the non-empty slots of the leaf of descriptor n.
LeafRecords(s, n) ==
    LET leaf == s.leaves[s.nodes[n].leaf]
    IN  {[key |-> SlotKeyBytes(leaf.slots[i]), value |-> SlotValBytes(leaf.slots[i])] :
            i \in {j \in SlotIdx : leaf.slots[j].ph # 0}}

\* The non-empty slots of the leaf of descriptor n.
LeafUsed(s, n) == {i \in SlotIdx : s.leaves[s.nodes[n].leaf].slots[i].ph # 0}

\* The split of the leaf of descriptor n for Put(key, value) gave state t with
\* split_key: old leaf <= split_key < new leaf, both non-empty, together the
\* old records and the new one, split_key the lower median.
SplitIsRight(s, t, n, key, value, split_key) ==
    LET new_n == Len(s.nodes) + 1
        before == LeafRecords(s, n)
        old == LeafRecords(t, n)
        new == LeafRecords(t, new_n)
        candidates == {r.key : r \in before} \cup {key}
    IN  /\ \A r \in old : LexCmp(r.key, split_key) <= 0
        /\ \A r \in new : LexCmp(r.key, split_key) > 0
        /\ old # {}
        /\ new # {}
        /\ old \cup new = before \cup {[key |-> key, value |-> value]}
        /\ Cardinality(LeafUsed(t, n)) + Cardinality(LeafUsed(t, new_n)) = LEAF_KEYS + 1
        /\ Cardinality(before) = LEAF_KEYS
        /\ split_key \in candidates
        /\ Cardinality({k \in candidates : LexCmp(k, split_key) < 0}) = LEAF_KEYS_MIDPOINT

\* C28: after a leaf split for a new key, with split_key the lower median of
\* the LEAF_KEYS + 1 candidate keys, every key of the old leaf is <= split_key,
\* every key of the new leaf is > split_key, both leaves are non-empty, the two
\* leaves hold exactly the LEAF_KEYS old records and the new one, and every
\* moved record has its value.
C28_LeafSplitPartitions ==
    faults = 0 =>
        \A key \in {k \in keyset : NeedsSplit(State, k)}, value \in Values :
            \A split_key \in SplitKeyChoices(State, key) :
                LET r == Put(State, key, value, NoFault, split_key)
                IN  SplitIsRight(State, r.st, LeafSearch(State, key), key, value, split_key)


\* ------------------------------------------------------------ inner split

\* The keys / children of inner node `inner` that count, in order.
InnerKeys(inner) == [i \in 1..inner.keycount |-> inner.keys[i - 1]]

InnerChildren(inner) == [i \in 1..(inner.keycount + 1) |-> inner.children[i - 1]]

\* The sequence q with x put in after its first i elements.
InsertedAt(q, i, x) == SubSeq(q, 1, i) \o <<x>> \o SubSeq(q, i + 1, Len(q))

\* Put(key) in state s splits a leaf whose parent is a full inner node.
SplitsInner(s, key) ==
    /\ NeedsSplit(s, key)
    /\ s.nodes[LeafSearch(s, key)].parent # 0
    /\ s.nodes[s.nodes[LeafSearch(s, key)].parent].keycount = INNER_KEYS

RECURSIVE Ancestors(_, _)
\* The inner nodes above node n.
Ancestors(s, n) ==
    IF s.nodes[n].parent = 0 THEN {}
    ELSE {s.nodes[n].parent} \cup Ancestors(s, s.nodes[n].parent)

\* State t is state s after a Put that split leaf descriptor n with split_key
\* under the full inner node `inner`: the node and the new inner node hold
\* INNER_KEYS_MIDPOINT keys and INNER_KEYS_MIDPOINT + 1 children each, in the
\* order they had with split_key and the new leaf put in; the key at index
\* INNER_KEYS_MIDPOINT, which neither of them keeps, is in an inner node above
\* them: in their parent, with the new inner node as the child after it, when
\* the parent was not full and is not split in its turn.
InnerSplitIsRight(s, t, n, inner, split_key) ==
    LET new_leafnode == Len(s.nodes) + 1
        new_inner == Len(s.nodes) + 2
        old == t.nodes[inner]
        new == t.nodes[new_inner]
        up == t.nodes[old.parent]
        keys == InnerKeys(s.nodes[inner])
        children == InnerChildren(s.nodes[inner])
        parent_full == /\ s.nodes[inner].parent # 0
                       /\ s.nodes[s.nodes[inner].parent].keycount = INNER_KEYS
    IN  \E idx \in 0..INNER_KEYS :
           LET allkeys == InsertedAt(keys, idx, split_key)
               allchildren == InsertedAt(children, idx + 1, new_leafnode)
               promoted == allkeys[INNER_KEYS_MIDPOINT + 1]
           IN  /\ ~new.is_leaf
               /\ n \in Range(children)
               /\ old.keycount = INNER_KEYS_MIDPOINT
               /\ new.keycount = INNER_KEYS_MIDPOINT
               /\ InnerKeys(old) = SubSeq(allkeys, 1, INNER_KEYS_MIDPOINT)
               /\ InnerKeys(new) = SubSeq(allkeys, INNER_KEYS_UPPER + 1, INNER_KEYS + 1)
               /\ Len(InnerKeys(old)) + Len(InnerKeys(new)) + 1 = Len(allkeys)
               /\ InnerChildren(old) = SubSeq(allchildren, 1, INNER_KEYS_MIDPOINT + 1)
               /\ InnerChildren(new) = SubSeq(allchildren, INNER_KEYS_UPPER + 1, INNER_KEYS + 2)
               /\ \A i \in 1..(INNER_KEYS_MIDPOINT + 1) :
                     /\ t.nodes[InnerChildren(old)[i]].parent = inner
                     /\ t.nodes[InnerChildren(new)[i]].parent = new_inner
               /\ old.parent # 0
               /\ new.parent # 0
               /\ \E a \in Ancestors(t, inner) \cup Ancestors(t, new_inner) :
                     promoted \in Range(InnerKeys(t.nodes[a]))
               /\ ~parent_full =>
                     /\ new.parent = old.parent
                     /\ \E p \in 1..up.keycount :
                           /\ InnerKeys(up)[p] = promoted
                           /\ InnerChildren(up)[p + 1] = new_inner
                     /\ inner \in Range(InnerChildren(up))

\* C29: between operations every inner node in the tree has keycount in
\* 1..INNER_KEYS; a Put that raises the keycount of an inner node to
\* INNER_KEYS + 1 splits it: the node and the new inner node keep
\* INNER_KEYS_MIDPOINT keys and INNER_KEYS_MIDPOINT + 1 children each, and the
\* key at index INNER_KEYS_MIDPOINT is moved to the parent and is in neither.
C29_InnerSplitHalves ==
    /\ \A n \in Reachable(State) :
          ~nodes[n].is_leaf => nodes[n].keycount \in 1..INNER_KEYS
    /\ \A key \in {k \in keyset : SplitsInner(State, k)} :
          \A split_key \in SplitKeyChoices(State, key) :
             LET n == LeafSearch(State, key)
                 r == Put(State, key, ValueOf(key), NoFault, split_key)
             IN  InnerSplitIsRight(State, r.st, n, nodes[n].parent, split_key)

\* The next key of the ascending run splits a leaf under a full inner node,
\* and the Put adds a leaf descriptor, an inner node and a top node.
C29_Witness ==
    /\ keyset \subseteq AscendingPlainPool
    /\ live # keyset
    /\ SplitsInner(State, LeastKey(keyset \ live))
    /\ \E split_key \in SplitKeyChoices(State, LeastKey(keyset \ live)) :
          LET r == Put(State, LeastKey(keyset \ live),
                       ValueOf(LeastKey(keyset \ live)), NoFault, split_key)
          IN  r.status = "OK" /\ Len(r.st.nodes) = Len(nodes) + 3


\* ------------------------------------------------- the tree Recover builds

RECURSIVE InOrder(_, _, _)
\* The in-order walk of the subtree of node n from child i on: a leaf
\* descriptor is visited as [leafnode |-> n], the key after child i of an inner
\* node as [key |-> keys[i]].
InOrder(s, n, i) ==
    IF s.nodes[n].is_leaf THEN << [leafnode |-> n] >>
    ELSE IF i = s.nodes[n].keycount
    THEN InOrder(s, s.nodes[n].children[i], 0)
    ELSE InOrder(s, s.nodes[n].children[i], 0)
            \o << [key |-> s.nodes[n].keys[i]] >>
            \o InOrder(s, n, i + 1)

\* The persistent leaves with a record on the list from root.head.
LeavesToRecover(s) == HeadList(s, s.head) \cap NonEmptyLeaves(s)

\* The highest key of the leaf of descriptor n.
MaxKeyOf(s, n) == MaxKey(s.leaves[s.nodes[n].leaf])

\* The in-order walk w of a tree takes leaves and separators in turn, every
\* separator is the highest key of the leaf before it, and the highest keys of
\* the leaves ascend.
WalkIsSorted(s, w) ==
    /\ Len(w) % 2 = 1
    /\ \A i \in 1..Len(w) :
          IF i % 2 = 1 THEN DOMAIN w[i] = {"leafnode"} ELSE DOMAIN w[i] = {"key"}
    /\ \A i \in 1..Len(w) : i % 2 = 0 =>
          /\ w[i].key = MaxKeyOf(s, w[i - 1].leafnode)
          /\ LexCmp(MaxKeyOf(s, w[i - 1].leafnode), MaxKeyOf(s, w[i + 1].leafnode)) <= 0

InnerPart(s) ==
    [n \in {m \in 1..Len(s.nodes) : ~s.nodes[m].is_leaf} |-> s.nodes[n]]

\* The parent link of every node of s.
ParentLinks(s) == [n \in 1..Len(s.nodes) |-> s.nodes[n].parent]

\* Result r of a splitting Put in state s left the inner nodes, the parent
\* links and tree_top as they were, and no descriptor more than before.
NoPropagation(s, r) ==
    /\ r.st.tree_top = s.tree_top
    /\ InnerPart(r.st) = InnerPart(s)
    /\ ParentLinks(r.st) = ParentLinks(s)

\* Result r of a splitting Put in state s has the new leaf descriptor among
\* the children of an inner node, which was changed or made for it.
Propagated(s, r) ==
    LET new_leafnode == Len(s.nodes) + 1
        parent == r.st.nodes[new_leafnode].parent
    IN  /\ Len(r.st.nodes) > Len(s.nodes)
        /\ r.st.nodes[new_leafnode].is_leaf
        /\ parent # 0
        /\ ~r.st.nodes[parent].is_leaf
        /\ \E i \in 0..r.st.nodes[parent].keycount :
              r.st.nodes[parent].children[i] = new_leafnode
        /\ InnerPart(r.st) # InnerPart(s)

\* C31: a Put that splits a leaf and whose transaction aborts, wherever it
\* aborts, returns FAILED with every inner node, every parent link and tree_top
\* as before the call; a Put whose transaction commits has propagated the split
\* into the inner nodes.
C31_PropagationAfterCommit ==
    \A key \in {k \in keyset : NeedsSplit(State, k)} :
       \A split_key \in SplitKeyChoices(State, key) :
          \A f \in PutFaults(State, key, split_key) \cup {NoFault} :
             LET r == Put(State, key, ValueOf(key), f, split_key)
             IN  IF r.faulted
                 THEN r.status = "FAILED" /\ NoPropagation(State, r)
                 ELSE r.status = "OK" /\ Propagated(State, r)

\* A split under an inner node can abort in the move of a slot, after the new
\* leaf was taken.
C31_Witness ==
    /\ tree_top # 0
    /\ ~nodes[tree_top].is_leaf
    /\ \E key \in {k \in keyset : NeedsSplit(State, k)} :
          \E split_key \in SplitKeyChoices(State, key) :
             \E f \in PutFaults(State, key, split_key) :
                /\ f.kind = "move"
                /\ Put(State, key, ValueOf(key), f, split_key).status = "FAILED"
                /\ Put(State, key, ValueOf(key), NoFault, split_key).status = "OK"


\* ------------------------------------------------------------- the descent

\* The child the descent rule names at an inner node, keys compared byte by
\* byte: the first child whose separator is >= key, else children[keycount].
FirstChildAtLeast(inner, key) ==
    LET hit == {idx \in 0..(inner.keycount - 1) : LexCmp(key, inner.keys[idx]) <= 0}
    IN  IF hit # {} THEN inner.children[Min(hit)] ELSE inner.children[inner.keycount]

RECURSIVE RuleDescend(_, _, _)
\* The leaf descriptor the descent rule reaches from node.
RuleDescend(s, node, key) ==
    IF s.nodes[node].is_leaf THEN node
    ELSE RuleDescend(s, FirstChildAtLeast(s.nodes[node], key), key)

RECURSIVE SearchSteps(_, _, _)
\* The inner nodes the loop of LeafSearch passes from node on.
SearchSteps(s, node, key) ==
    IF s.nodes[node].is_leaf THEN 0
    ELSE 1 + SearchSteps(s, ChildFor(s.nodes[node], key), key)

RECURSIVE TreeHeight(_, _)
\* The inner nodes on the longest way from node down to a leaf descriptor.
TreeHeight(s, node) ==
    IF s.nodes[node].is_leaf THEN 0
    ELSE 1 + Max({TreeHeight(s, s.nodes[node].children[i]) :
                     i \in 0..s.nodes[node].keycount})

\* LeafSearch(key) in state s is null exactly when tree_top is null, and else
\* ends within the height of the tree at the leaf descriptor the rule names.
SearchFollowsRule(s, key) ==
    /\ LeafSearch(s, key) = 0 <=> s.tree_top = 0
    /\ s.tree_top # 0 =>
          /\ s.nodes[LeafSearch(s, key)].is_leaf
          /\ SearchSteps(s, s.tree_top, key) <= TreeHeight(s, s.tree_top)
          /\ LeafSearch(s, key) = RuleDescend(s, s.tree_top, key)

\* Every slot of a reachable leaf that holds key is in the leaf of the
\* descriptor LeafSearch(key) returns.
SearchFindsStored(s, key) ==
    \A ls \in SlotsOf(s, key) : s.nodes[LeafSearch(s, key)].leaf = ls[1]

\* C32: LeafSearch(K) returns null exactly when tree_top is null; otherwise it
\* ends within the height of the tree at the leaf descriptor reached by taking
\* at each inner node the first child whose separator is >= K, else
\* children[keycount]; every stored key is in the leaf LeafSearch returns for it.
C32_LeafSearchFindsLeaf ==
    \A key \in keyset : SearchFollowsRule(State, key) /\ SearchFindsStored(State, key)


\* ---------------------------------------------------------------- shutdown

RECURSIVE ShutdownNode(_, _, _)
\* KVTree::Shutdown(KVNode*) from child idx of node on: the addresses deleted,
\* in the order of the calls of delete.
ShutdownNode(s, node, idx) ==
    IF s.nodes[node].is_leaf THEN << node >>
    ELSE IF idx < s.nodes[node].keycount + 1
    THEN ShutdownNode(s, s.nodes[node].children[idx], 0) \o ShutdownNode(s, node, idx + 1)
    ELSE << node >>

\* KVTree::Shutdown(): the state it leaves and the addresses it deleted.
Shutdown(s) ==
    [st |-> s,
     freed |-> IF s.tree_top # 0 THEN ShutdownNode(s, s.tree_top, 0) ELSE << >>]

\* How often address n is in the sequence freed.
TimesFreed(freed, n) == Cardinality({i \in 1..Len(freed) : freed[i] = n})

\* C33: Shutdown deletes every leaf descriptor and inner node allocated since
\* the pool was opened exactly once, and changes no persistent leaf, no slot
\* and not root.head.
C33_ShutdownFreesAll ==
    LET r == Shutdown(State)
    IN  /\ \A n \in 1..Len(nodes) : TimesFreed(r.freed, n) = 1
        /\ r.st.head = head
        /\ r.st.leaves = leaves


\* ------------------------------------------------------------ parent links

\* In state s tree_top has no parent, and every other node reachable from it
\* has as parent a reachable inner node that holds it once among its first
\* keycount + 1 children.
ParentsAgree(s) ==
    s.tree_top # 0 =>
        /\ s.nodes[s.tree_top].parent = 0
        /\ \A n \in Reachable(s) \ {s.tree_top} :
              LET p == s.nodes[n].parent
              IN  /\ p \in Reachable(s)
                  /\ ~s.nodes[p].is_leaf
                  /\ Cardinality({i \in 0..s.nodes[p].keycount :
                                     s.nodes[p].children[i] = n}) = 1

\* The states the next Put of an ascending run can leave.
NextPuts(s) ==
    IF live = keyset THEN {}
    ELSE {Put(s, LeastKey(keyset \ live), ValueOf(LeastKey(keyset \ live)),
              NoFault, split_key).st :
             split_key \in SplitKeyChoices(s, LeastKey(keyset \ live))}

\* C34: in every reachable state, in the state Recover builds from it and
\* after the next Put (leaf split, inner splits at any depth, new top node), the
\* parent links agree with the child links.
C34_ParentLinksAgree ==
    /\ ParentsAgree(State)
    /\ ParentsAgree(Recover(State))
    /\ \A t \in NextPuts(State) : ParentsAgree(t) /\ ParentsAgree(Recover(t))

\* A tree of three levels, grown by Puts and rebuilt by Recover: an inner node
\* was split and a top node made over the halves.
C34_Witness ==
    /\ tree_top # 0
    /\ TreeHeight(State, tree_top) >= 2
    /\ Cardinality({n \in Reachable(State) : ~nodes[n].is_leaf}) >= 3
    /\ keyset \subseteq AscendingPlainPool
    /\ TreeHeight(Recover(State), Recover(State).tree_top) >= 2


\* ------------------------------------------------------------------- depth

RECURSIVE DepthsUnder(_, _, _)
\* The depths of the leaf descriptors under node, itself at depth d.
DepthsUnder(s, node, d) ==
    IF s.nodes[node].is_leaf THEN {d}
    ELSE UNION {DepthsUnder(s, s.nodes[node].children[i], d + 1) :
                   i \in 0..s.nodes[node].keycount}

\* The depths of the leaf descriptors reachable from tree_top.
LeafDepths(s) == IF s.tree_top = 0 THEN {} ELSE DepthsUnder(s, s.tree_top, 0)

\* All leaf descriptors reachable from tree_top are at one depth.
Balanced(s) == Cardinality(LeafDepths(s)) <= 1

\* C35: in every reachable state, in the tree Recover builds from it and after
\* the next Put, all leaf descriptors reachable from tree_top are at the same
\* depth.
C35_LeavesAtOneDepth ==
    /\ Balanced(State)
    /\ Balanced(Recover(State))
    /\ \A t \in NextPuts(State) : Balanced(t) /\ Balanced(Recover(t))

\* Four leaves or more at depth 2, in the tree grown by Puts and in the tree
\* Recover builds.
C35_Witness ==
    /\ LeafDepths(State) = {2}
    /\ LeafDepths(Recover(State)) = {2}
    /\ Cardinality(ReachableLeafNodes(State)) >= 4
    /\ keyset \subseteq AscendingPlainPool


\* ------------------------------------------------------ Get into a buffer

\* The greatest buffer size Get is called with.
MaxLimit == 5

\* The limits Get is called with.
Limits == 0..MaxLimit

\* limit - 1 in size_t (modulo 2^64): for limit = 0 it is 2^64 - 1, kept as
\* wrapped since it is beyond the integers at hand; else it is n.
LimitMinusOne(limit) ==
    IF limit = 0 THEN [wrapped |-> TRUE, n |-> 0] ELSE [wrapped |-> FALSE, n |-> limit - 1]

\* vs < limit - 1 with vs a uint32_t converted to size_t: 2^64 - 1 is above
\* every uint32_t.
BelowLimitMinusOne(vs, limit) ==
    LimitMinusOne(limit).wrapped \/ vs < LimitMinusOne(limit).n

\* KVTree::Get(key, limit, value, valuebytes): the status, the bytes memcpy
\* wrote into value, and *valuebytes as a sequence (<< >> when not written).
GetWithLimit(s, key, limit) ==
    LET n == LeafSearch(s, key)
        slot == MatchSlot(s.nodes[n], PearsonHash(key), key)
        kv == s.leaves[s.nodes[n].leaf].slots[slot]
    IN  IF n = 0 THEN [status |-> "NOT_FOUND", written |-> << >>, valuebytes |-> << >>]
        ELSE IF slot < 0
        THEN [status |-> "NOT_FOUND", written |-> << >>, valuebytes |-> << >>]
        ELSE IF BelowLimitMinusOne(kv.vs, limit)
        THEN [status |-> "OK", written |-> SlotValBytes(kv), valuebytes |-> << kv.vs >>]
        ELSE [status |-> "FAILED", written |-> << >>, valuebytes |-> << >>]

\* kvtree_get
kvtree_get(s, key, limit) == GetWithLimit(s, key, limit)

\* The slot Get(key) reads in state s: <<leaf, slot>>, or << >> when it finds
\* no slot for the key.
SlotRead(s, key) ==
    IF LeafSearch(s, key) = 0 THEN << >>
    ELSE IF MatchSlot(s.nodes[LeafSearch(s, key)], PearsonHash(key), key) < 0 THEN << >>
    ELSE << s.nodes[LeafSearch(s, key)].leaf,
            MatchSlot(s.nodes[LeafSearch(s, key)], PearsonHash(key), key) >>

\* Result r of Get(key, limit, ...) in state s is within the buffer and as the
\* claim says for a key that is found and fits, found and does not fit, absent.
GetWithinLimit(s, key, limit, r) ==
    LET at == SlotRead(s, key)
        vs == s.leaves[at[1]].slots[at[2]].vs
    IN  /\ Len(r.written) <= limit
        /\ at = << >> => r.status = "NOT_FOUND" /\ r.written = << >>
        /\ at # << >> =>
              /\ r.status \in {"OK", "FAILED"}
              /\ r.status = "OK" => vs <= limit /\ r.valuebytes = << vs >>
              /\ vs > limit => r.status = "FAILED"
              /\ r.status = "FAILED" => r.written = << >>

\* C36: Get(key, limit, value, valuebytes) writes at most limit bytes into
\* value for every limit >= 0: OK with *valuebytes the stored value size only
\* when the value fits, FAILED with nothing written when the key is found and
\* the value does not fit, NOT_FOUND with nothing written when the key is absent.
C36_GetWithinLimit ==
    \A key \in keyset : \A limit \in Limits :
        GetWithinLimit(State, key, limit, kvtree_get(State, key, limit))


\* ------------------------------------------------------ Get into a string

\* What the caller's string holds before Get.
Inits == {<< >>, <<7>>}

\* call_get_copy: c->assign(v, vb), whatever the string arg held.
call_get_copy(v, vb, arg) == SubSeq(v, 1, vb)

\* Outcome r of Get(key, &value), with *value = init before the call in state
\* s: OK and exactly the stored value for a key that is found, NOT_FOUND and
\* init for another.
GetGivesStored(s, key, init, r) ==
    LET at == SlotRead(s, key)
    IN  IF at = << >>
        THEN r = [status |-> "NOT_FOUND", value |-> init]
        ELSE r = [status |-> "OK", value |-> SlotValBytes(s.leaves[at[1]].slots[at[2]])]

\* C37: Get(key, string* value) on a found key leaves *value equal to exactly
\* the stored value, whatever the string held before the call, and on
\* NOT_FOUND leaves *value unchanged.
C37_GetAssignsValue ==
    \A key \in keyset : \A init \in Inits :
        /\ \A r \in Get(State, key, init) : GetGivesStored(State, key, init, r)
        /\ \A v \in Values : call_get_copy(v, Len(v), init) = v


\* -------------------------------------------------------- the other keys

\* The lookup of every key of the run but key is in state t what it is in s.
OthersKept(s, t, key) ==
    \A other \in keyset \ {key} : Lookup(t, other) = Lookup(s, other)

\* C38: Put(K, V) and Remove(K) change the lookup result of no other key: for
\* every key K' # K, Get(K') gives the same status and value after the
\* operation as before it, whether the Put fills a slot, splits a leaf, splits
\* inner nodes or makes a new top node.
C38_OtherKeysUntouched ==
    \A key \in keyset :
        /\ \A r \in PutResults(State, key) : OthersKept(State, r.st, key)
        /\ \A r \in RemoveResults(State, key) : OthersKept(State, r.st, key)


\* ------------------------------------------------------- the db objects

\* The db objects and the close counts as one value.
DbWorld == [dbs |-> dbs, closed |-> closed]

\* pmemkv_close(h): one more close of the pmemkv_db h.
pmemkv_close(cl, h) == [cl EXCEPT ![h] = @ + 1]

\* db::close(): pmemkv_close on the handle when there is one, then _db is null.
close(w, d) ==
    [dbs |-> [w.dbs EXCEPT ![d].db = 0],
     closed |-> IF w.dbs[d].db # 0 THEN pmemkv_close(w.closed, w.dbs[d].db)
                ELSE w.closed]

\* db::db(): a new object with no handle.
db_default(w, d) == [w EXCEPT !.dbs[d] = [alive |-> TRUE, db |-> 0]]

\* db::db(db &&other): takes other's handle and leaves null in other.
db_move(w, d, other) ==
    [w EXCEPT !.dbs[d] = [alive |-> TRUE, db |-> w.dbs[other].db],
              !.dbs[other].db = 0]

\* db::operator=(db &&other): close(), then std::swap(this->_db, other._db).
db_assign(w, d, other) ==
    [close(w, d) EXCEPT !.dbs[d].db = close(w, d).dbs[other].db,
                        !.dbs[other].db = close(w, d).dbs[d].db]

\* db::open(engine_name) and db::open(engine_name, std::move(cfg)):
\* pmemkv_open(engine_name, config, &_db).  When it returns OK it has stored a
\* new pmemkv_db in _db, over what _db held; otherwise _db is as it was.
open(w, d, status) ==
    IF status = "OK"
    THEN [dbs |-> [w.dbs EXCEPT ![d].db = Len(w.closed) + 1],
          closed |-> Append(w.closed, 0)]
    ELSE w

\* db::~db(): close(), and the object is gone.
db_destroy(w, d) == [close(w, d) EXCEPT !.dbs[d].alive = FALSE]

\* The db objects and the close counts become those of w.
DbBecomes(w) ==
    /\ dbs' = w.dbs
    /\ closed' = w.closed

DbConstruct(d) ==
    /\ ~dbs[d].alive
    /\ DbBecomes(db_default(DbWorld, d))
    /\ Called("db", d, "OK")

DbMoveConstruct(d, other) ==
    /\ d # other
    /\ ~dbs[d].alive
    /\ dbs[other].alive
    /\ DbBecomes(db_move(DbWorld, d, other))
    /\ Called("db_move", d, "OK")

\* a = std::move(b), a = std::move(a) included.
DbMoveAssign(d, other) ==
    /\ dbs[d].alive
    /\ dbs[other].alive
    /\ DbBecomes(db_assign(DbWorld, d, other))
    /\ Called("db_assign", d, "OK")

\* db::open on any db object, one that holds a handle included.
DbOpenCall(d) ==
    /\ dbs[d].alive
    /\ \E status \in {"OK", "WRONG_ENGINE_NAME", "CONFIG_PARSING_ERROR"} :
          /\ status = "OK" => Len(closed) < MaxDbHandles
          /\ DbBecomes(open(DbWorld, d, status))
          /\ Called(IF dbs[d].db = 0 THEN "db_open" ELSE "db_reopen", d, status)

DbCloseCall(d) ==
    /\ dbs[d].alive
    /\ DbBecomes(close(DbWorld, d))
    /\ Called(IF dbs[d].db = 0 THEN "db_close_null" ELSE "db_close", d, "OK")

DbDestroy(d) ==
    /\ dbs[d].alive
    /\ DbBecomes(db_destroy(DbWorld, d))
    /\ Called("db_destroy", d, "OK")

NextDb ==
    \E d \in DbObjects :
        /\ EngineUntouched
        /\ UNCHANGED <<configs, deleted, handed>>
        /\ \/ DbConstruct(d)
           \/ \E other \in DbObjects : DbMoveConstruct(d, other)
           \/ \E other \in DbObjects : DbMoveAssign(d, other)
           \/ DbOpenCall(d)
           \/ DbCloseCall(d)
           \/ DbDestroy(d)

\* At first no db object is constructed; the engine is not used.
SpecDb == InitConfig /\ [][NextDb]_vars

\* The db objects that hold the handle h.
Holders(w, h) == {d \in DbObjects : w.dbs[d].db = h}

\* Every handle is held by one db object and not closed, or held by none and
\* closed once.
ClosedOnce(w) ==
    \A h \in DOMAIN w.closed :
        /\ w.closed[h] <= 1
        /\ Cardinality(Holders(w, h)) = 1 - w.closed[h]

\* A dead object holds no handle.
DeadHoldNothing(w) == \A d \in DbObjects : ~w.dbs[d].alive => w.dbs[d].db = 0

\* C39: over every sequence of open, close, move construction, move assignment
\* and destruction on db objects, every handle a successful db::open stored is
\* passed to pmemkv_close exactly once: it is held by one db object and not yet
\* closed, or held by none and closed once; close on a db with no handle changes
\* nothing; and a db holds no handle after close and after being moved from.
C39_HandleClosedOnce ==
    /\ ClosedOnce(DbWorld)
    /\ DeadHoldNothing(DbWorld)
    /\ \A d \in DbObjects :
          dbs[d].alive =>
             /\ dbs[d].db = 0 => close(DbWorld, d) = DbWorld
             /\ close(DbWorld, d).dbs[d].db = 0
             /\ \A other \in DbObjects :
                   /\ dbs[other].alive /\ other # d =>
                         db_assign(DbWorld, other, d).dbs[d].db = 0
                   /\ ~dbs[other].alive => db_move(DbWorld, other, d).dbs[d].db = 0

=============================================================================
